---------------------------- MODULE Spec2Model ----------------------------
(***************************************************************************)
(* A model of the raster-to-solid converters and of the mesh repair stage  *)
(* of flashforge-claude-skill.                                             *)
(*                                                                         *)
(*   SpecGrid : the grid mesh builder (create_heightmap_mesh,              *)
(*              create_flat_lithophane, image_to_stl_heightmap)            *)
(*   SpecFit  : scale_to_fit (scripts/utils.py and converters.py)          *)
(*   SpecFix  : fix_model and auto_orient_upright (scripts/fix_model.py)   *)
(*                                                                         *)
(* Lengths are exact rationals: a coordinate is an integer numerator over  *)
(* a denominator kept beside it, so that equalities of the code's real     *)
(* arithmetic are decided exactly.                                         *)
(***************************************************************************)
EXTENDS Integers, Sequences, FiniteSets, TLC

VARIABLES
    \* ---- grid mesh builder ----
    gvariant,     \* which copy of the builder runs: "script" or "mcp"
    width,        \* raster width in pixels
    height,       \* raster height in pixels
    img,          \* the raster, flattened row-major (index 0 .. width*height-1)
    max_height,   \* max_height / max_height_mm
    base_height,  \* base_height / base_mm
    zz,           \* Z of every vertex, times 255: top block then bottom block
    faces,        \* the triangle list, in the order the code appends
    gpc,          \* the loop the builder is about to run
    \* ---- scale_to_fit ----
    fit_variant,  \* which scale_to_fit runs: "utils" or "mcp"
    fit_args,     \* <<max_x, max_y, max_z>> as passed; 0 = argument not given
    fit_in,       \* a copy of the mesh as it was when the call was made
    fit_mesh,     \* the mesh object (scaled in place by apply_scale)
    fit_pc,       \* "idle", "call" or "returned"
    \* ---- fix_model ----
    fx_args,      \* the arguments of fix_model
    fx_axis,      \* longest_axis as numpy.linalg.eigh gives it for the loaded mesh
    fx_mesh,      \* the local variable mesh
    fx_prev,      \* the mesh as it was before the stage that ran last
    fx_removed,   \* removed_bodies
    fx_scale,     \* scale_factor, a fraction <<n, d>>
    fx_fits,      \* fits
    fx_exported,  \* the mesh written to output_path (<<>> before the export)
    fx_log,       \* the stages that changed the mesh so far, in order
    fx_pc,        \* the stage fix_model is about to run
    \* ---- heightmap_to_stl / image_to_stl_heightmap (with the grid variables) ----
    hm_scale,     \* the argument scale
    hm_fit,       \* the argument fit_to_bed
    hm_rel,       \* where in its bounding box the centroid of the built mesh lies
    hm_mesh,      \* the mesh, by its bounds: [lo, hi, den]
    hm_out,       \* the mesh written to output_path (<<>> before the export)
    \* ---- png_to_stl / image_to_stl_contour ----
    ct_variant,   \* which copy runs: "script" (png_to_stl.py) or "mcp" (converters.py)
    ct_loops,     \* contours and hierarchy as findContours returned them
    ct_i,         \* the index enumerate(contours) is at (1-based)
    ct_polygons,  \* the list polygons
    ct_extrudes,  \* whether trimesh.creation.extrude_polygon succeeds in this run
    ct_meshes,    \* the list meshes, by the polygon each mesh was extruded from
    ct_error,     \* the messages of the errors raised to the caller, in order
    ct_out,       \* the polygons of the mesh written to output_path (<<>>: no file)
    ct_pc,        \* where the conversion call is
    \* ---- lithophane / image_to_lithophane ----
    lt_variant,   \* which copy runs: "script" (lithophane.py) or "mcp" (converters.py)
    lt_img,       \* the grayscale pixels, 0..255
    lt_positive,  \* the argument positive
    lt_max,       \* thickness / thickness_mm (max_thickness), in tenths of a millimetre
    lt_arr,       \* the pixels after the inversion step, times 255 (<<>> before it)
    lt_thick,     \* thickness_map / Z, times 2550 (<<>> before it is computed)
    lt_pc,        \* where the generator is
    \* ---- validate_mesh ----
    vl_variant,   \* which copy runs: "utils" (scripts/utils.py) or "mcp" (converters.py)
    vl_mesh,      \* the mesh object passed in: [vertices, faces]
    vl_in,        \* a copy of the mesh as it was before the first call
    vl_reports,   \* what each call so far returned or raised, in order
    vl_pc,        \* "call" while calls are still made, then "done"
    \* ---- add_base_plate and the inline base of generate_figurine ----
    bp_variant,   \* "png_to_stl", "converters" or "tripo_api"
    bp_base_height, \* base_height / base_height_mm, in millimetres
    bp_mesh,      \* the mesh object the caller passed in: [lo, hi, den]
    bp_in,        \* a copy of that mesh as it was before the call
    bp_out,       \* the concatenated result <<base, mesh>>, <<>> before the call
    bp_pc,         \* "call" or "done"
    \* ---- conversion jobs of the MCP server (call_tool) ----
    cv_jobs,   \* the arguments of each job: [image_path, tool, output_path]
    cv_files,   \* the files written so far: path -> content
    cv_results,   \* what each finished job returned: [output_path, content]
    cv_done,   \* the jobs that have run
    \* ---- printer session: send_file and _send_command (protocol.py, flashforge.py) ----
    sf_fn,   \* which function runs: "send_file" or "_send_command"
    sf_filesize,   \* filesize, the length of the file in bytes
    sf_start_print,   \* the argument start_print
    sf_callback,   \* whether a progress_callback was given
    sf_sent,   \* everything handed to sock.send so far, in order
    sf_bytes_sent,   \* the local variable bytes_sent (also the file position)
    sf_packet_num,   \* the local variable packet_num
    sf_progress,   \* the bytes_sent values passed to progress_callback, in order
    sf_response,   \* the replies assigned to response, in order: [to, reply]
    sf_chunks,   \* the number of chunks the response loop of _send_command has read
    sf_sock,   \* the socket: "created", "connected" or "closed"
    sf_result,   \* "none", "True", "response" or "raised"
    sf_pc,   \* where the function is
    \* ---- Tripo task polling (_wait_for_task, _wait_for_completion) ----
    tp_variant,   \* which copy runs: "_wait_for_task" or "_wait_for_completion"
    tp_timeout,   \* self.timeout, in poll intervals
    tp_elapsed,   \* time.time() - start_time, in poll intervals
    tp_polls,   \* the number of requests made
    tp_last,   \* the last response: [raised, status_code, code, status]
    tp_outcome,   \* "none", "output", "RuntimeError", "TimeoutError" or "RequestException"
    tp_pc,   \* "head" at the loop test, then "done"
    \* ---- slice_stl (slicer.py) ----
    sl_same,   \* whether output_path is the name the slicer is expected to write (stem.gcode)
    sl_before,   \* the G-code files of the output directory before the call: name -> [content, mtime]
    sl_files,   \* the G-code files of the output directory now
    sl_written,   \* the name the slicer run wrote, "none" if it wrote no file
    sl_result,   \* "none", "returned" or "RuntimeError"
    sl_pc,   \* "run", "locate" or "done"
    \* ---- contour placement: png_to_stl / image_to_stl_contour after concatenation ----
    pl_variant,   \* which copy runs: "script" (png_to_stl.py) or "mcp" (converters.py)
    pl_args,   \* the arguments [scale, base, fit_to_bed], scale 0 standing for None
    pl_combined,   \* the bounds of the local variable combined: [lo, hi, den]
    pl_exported,   \* the bounds of the mesh written to output_path, <<>> before
    pl_issues,   \* the number of build-volume issues the validation reports
    pl_pc   \* "scale", "fit", "base", "export" or "exported"

gridVars == <<gvariant, width, height, img, max_height, base_height, zz, faces, gpc>>
fitVars == <<fit_variant, fit_args, fit_in, fit_mesh, fit_pc>>

fixVars == <<fx_args, fx_axis, fx_mesh, fx_prev, fx_removed, fx_scale, fx_fits,
            fx_exported, fx_log, fx_pc>>

hmVars == <<hm_scale, hm_fit, hm_rel, hm_mesh, hm_out>>

ltVars == <<lt_variant, lt_img, lt_positive, lt_max, lt_arr, lt_thick, lt_pc>>

vlVars == <<vl_variant, vl_mesh, vl_in, vl_reports, vl_pc>>

bpVars == <<bp_variant, bp_base_height, bp_mesh, bp_in, bp_out, bp_pc>>

cvVars == <<cv_jobs, cv_files, cv_results, cv_done>>

sfVars == <<sf_fn, sf_filesize, sf_start_print, sf_callback, sf_sent, sf_bytes_sent, sf_packet_num, sf_progress, sf_response, sf_chunks, sf_sock, sf_result, sf_pc>>

tpVars == <<tp_variant, tp_timeout, tp_elapsed, tp_polls, tp_last, tp_outcome, tp_pc>>

slVars == <<sl_same, sl_before, sl_files, sl_written, sl_result, sl_pc>>

plVars == <<pl_variant, pl_args, pl_combined, pl_exported, pl_issues, pl_pc>>

ctVars == <<ct_variant, ct_loops, ct_i, ct_polygons, ct_extrudes, ct_meshes, ct_error,
           ct_out, ct_pc>>

vars == <<gridVars, fitVars, fixVars, hmVars, ctVars, ltVars, vlVars, bpVars, cvVars, sfVars, tpVars, slVars, plVars>>

\* The state of a component that does not run in the specification at hand.
GridIdle ==
    /\ gvariant = "none" /\ width = 0 /\ height = 0 /\ img = <<>>
    /\ max_height = 0 /\ base_height = 0 /\ zz = <<>> /\ faces = <<>> /\ gpc = "idle"
FitIdle ==
    /\ fit_variant = "none" /\ fit_args = <<0, 0, 0>> /\ fit_in = <<>>
    /\ fit_mesh = <<>> /\ fit_pc = "idle"
FixIdle ==
    /\ fx_args = <<>> /\ fx_axis = <<0, 0, 0>> /\ fx_mesh = <<>> /\ fx_prev = <<>>
    /\ fx_removed = 0 /\ fx_scale = <<1, 1>> /\ fx_fits = FALSE /\ fx_exported = <<>>
    /\ fx_log = <<>> /\ fx_pc = "idle"

HmIdle ==
    /\ hm_scale = 0 /\ hm_fit = FALSE /\ hm_rel = <<>> /\ hm_mesh = <<>> /\ hm_out = <<>>

CtIdle ==
    /\ ct_variant = "none" /\ ct_loops = <<>> /\ ct_i = 0 /\ ct_polygons = <<>>
    /\ ct_extrudes = FALSE /\ ct_meshes = <<>> /\ ct_error = <<>> /\ ct_out = <<>>
    /\ ct_pc = "idle"

LtIdle ==
    /\ lt_variant = "none" /\ lt_img = <<>> /\ lt_positive = FALSE /\ lt_max = 0
    /\ lt_arr = <<>> /\ lt_thick = <<>> /\ lt_pc = "idle"

VlIdle ==
    /\ vl_variant = "none" /\ vl_mesh = <<>> /\ vl_in = <<>> /\ vl_reports = <<>>
    /\ vl_pc = "idle"

BpIdle ==
    /\ bp_variant = "none" /\ bp_base_height = 0 /\ bp_mesh = <<>> /\ bp_in = <<>>
    /\ bp_out = <<>> /\ bp_pc = "idle"

CvIdle ==
    /\ cv_jobs = <<>> /\ cv_files = <<>> /\ cv_results = <<>> /\ cv_done = {}

SfIdle ==
    /\ sf_fn = "none" /\ sf_filesize = 0 /\ sf_start_print = FALSE /\ sf_callback = FALSE
    /\ sf_sent = <<>> /\ sf_bytes_sent = 0 /\ sf_packet_num = 0 /\ sf_progress = <<>>
    /\ sf_response = <<>> /\ sf_chunks = 0 /\ sf_sock = "none" /\ sf_result = "none"
    /\ sf_pc = "idle"

TpIdle ==
    /\ tp_variant = "none" /\ tp_timeout = 0 /\ tp_elapsed = 0 /\ tp_polls = 0
    /\ tp_last = <<>> /\ tp_outcome = "none" /\ tp_pc = "idle"

SlIdle ==
    /\ sl_same = FALSE /\ sl_before = <<>> /\ sl_files = <<>> /\ sl_written = "none"
    /\ sl_result = "none" /\ sl_pc = "idle"

PlIdle ==
    /\ pl_variant = "none" /\ pl_args = <<>> /\ pl_combined = <<>> /\ pl_exported = <<>>
    /\ pl_issues = 0 /\ pl_pc = "idle"

\* What each component leaves alone, and the idle state of the others.
gridRest == <<fitVars, fixVars, hmVars, ctVars, ltVars, vlVars, bpVars, cvVars, sfVars, tpVars, slVars, plVars>>
fitRest == <<gridVars, fixVars, hmVars, ctVars, ltVars, vlVars, bpVars, cvVars, sfVars, tpVars, slVars, plVars>>
fixRest == <<gridVars, fitVars, hmVars, ctVars, ltVars, vlVars, bpVars, cvVars, sfVars, tpVars, slVars, plVars>>
hmRest == <<fitVars, fixVars, ctVars, ltVars, vlVars, bpVars, cvVars, sfVars, tpVars, slVars, plVars>>
ctRest == <<gridVars, fitVars, fixVars, hmVars, ltVars, vlVars, bpVars, cvVars, sfVars, tpVars, slVars, plVars>>
ltRest == <<gridVars, fitVars, fixVars, hmVars, ctVars, vlVars, bpVars, cvVars, sfVars, tpVars, slVars, plVars>>
vlRest == <<gridVars, fitVars, fixVars, hmVars, ctVars, ltVars, bpVars, cvVars, sfVars, tpVars, slVars, plVars>>
bpRest == <<gridVars, fitVars, fixVars, hmVars, ctVars, ltVars, vlVars, cvVars, sfVars, tpVars, slVars, plVars>>
cvRest == <<gridVars, fitVars, fixVars, hmVars, ctVars, ltVars, vlVars, bpVars, sfVars, tpVars, slVars, plVars>>
sfRest == <<gridVars, fitVars, fixVars, hmVars, ctVars, ltVars, vlVars, bpVars, cvVars, tpVars, slVars, plVars>>
tpRest == <<gridVars, fitVars, fixVars, hmVars, ctVars, ltVars, vlVars, bpVars, cvVars, sfVars, slVars, plVars>>
slRest == <<gridVars, fitVars, fixVars, hmVars, ctVars, ltVars, vlVars, bpVars, cvVars, sfVars, tpVars, plVars>>
plRest == <<gridVars, fitVars, fixVars, hmVars, ctVars, ltVars, vlVars, bpVars, cvVars, sfVars, tpVars, slVars>>
GridRestIdle == FitIdle /\ FixIdle /\ HmIdle /\ CtIdle /\ LtIdle /\ VlIdle /\ BpIdle /\ CvIdle /\ SfIdle /\ TpIdle /\ SlIdle /\ PlIdle
FitRestIdle == GridIdle /\ FixIdle /\ HmIdle /\ CtIdle /\ LtIdle /\ VlIdle /\ BpIdle /\ CvIdle /\ SfIdle /\ TpIdle /\ SlIdle /\ PlIdle
FixRestIdle == GridIdle /\ FitIdle /\ HmIdle /\ CtIdle /\ LtIdle /\ VlIdle /\ BpIdle /\ CvIdle /\ SfIdle /\ TpIdle /\ SlIdle /\ PlIdle
HmRestIdle == FitIdle /\ FixIdle /\ CtIdle /\ LtIdle /\ VlIdle /\ BpIdle /\ CvIdle /\ SfIdle /\ TpIdle /\ SlIdle /\ PlIdle
CtRestIdle == GridIdle /\ FitIdle /\ FixIdle /\ HmIdle /\ LtIdle /\ VlIdle /\ BpIdle /\ CvIdle /\ SfIdle /\ TpIdle /\ SlIdle /\ PlIdle
LtRestIdle == GridIdle /\ FitIdle /\ FixIdle /\ HmIdle /\ CtIdle /\ VlIdle /\ BpIdle /\ CvIdle /\ SfIdle /\ TpIdle /\ SlIdle /\ PlIdle
VlRestIdle == GridIdle /\ FitIdle /\ FixIdle /\ HmIdle /\ CtIdle /\ LtIdle /\ BpIdle /\ CvIdle /\ SfIdle /\ TpIdle /\ SlIdle /\ PlIdle
BpRestIdle == GridIdle /\ FitIdle /\ FixIdle /\ HmIdle /\ CtIdle /\ LtIdle /\ VlIdle /\ CvIdle /\ SfIdle /\ TpIdle /\ SlIdle /\ PlIdle
CvRestIdle == GridIdle /\ FitIdle /\ FixIdle /\ HmIdle /\ CtIdle /\ LtIdle /\ VlIdle /\ BpIdle /\ SfIdle /\ TpIdle /\ SlIdle /\ PlIdle
SfRestIdle == GridIdle /\ FitIdle /\ FixIdle /\ HmIdle /\ CtIdle /\ LtIdle /\ VlIdle /\ BpIdle /\ CvIdle /\ TpIdle /\ SlIdle /\ PlIdle
TpRestIdle == GridIdle /\ FitIdle /\ FixIdle /\ HmIdle /\ CtIdle /\ LtIdle /\ VlIdle /\ BpIdle /\ CvIdle /\ SfIdle /\ SlIdle /\ PlIdle
SlRestIdle == GridIdle /\ FitIdle /\ FixIdle /\ HmIdle /\ CtIdle /\ LtIdle /\ VlIdle /\ BpIdle /\ CvIdle /\ SfIdle /\ TpIdle /\ PlIdle
PlRestIdle == GridIdle /\ FitIdle /\ FixIdle /\ HmIdle /\ CtIdle /\ LtIdle /\ VlIdle /\ BpIdle /\ CvIdle /\ SfIdle /\ TpIdle /\ SlIdle

(***************************************************************************)
(* Bounds of the model                                                     *)
(***************************************************************************)
MaxDim == 4          \* rasters are 2..MaxDim pixels wide and high
MaxHeightMm == 2     \* max_height ranges over 1..MaxHeightMm
MaxBaseMm == 1       \* base_height ranges over 0..MaxBaseMm

\* Pixel intensities the rasters are made of (0 = black, 255 = white).
Levels == {0, 100, 255}

(***************************************************************************)
(* Grid mesh builder                                                       *)
(***************************************************************************)

\* A raster with free corner pixels a (first), b (last) and fill c elsewhere.
Raster(w, h, a, b, c) ==
    [p \in 0..(w * h - 1) |-> IF p = 0 THEN a ELSE IF p = w * h - 1 THEN b ELSE c]

\* Mutant of Heights: the brightness is inverted before it is mapped.
HeightsInverted(im, mh, bh) == [p \in DOMAIN im |-> (255 - im[p]) * mh + 255 * bh]

\* heights = img / 255 * max_height + base_height, kept times 255.
Heights(im, mh, bh) == [p \in DOMAIN im |-> im[p] * mh + 255 * bh]

\* vertices = vstack([top_vertices, bottom_vertices]); bottom vertices at z = 0.
\* Only the Z column is kept: vertex v (0-based) has Z zz[v] / 255.
Vertices(im, mh, bh) ==
    LET n == Cardinality(DOMAIN im)
        hs == Heights(im, mh, bh)
    IN  [v \in 0..(2 * n - 1) |-> IF v < n THEN hs[v] ELSE 0]

\* Loop indices of the n-th appended face (n from 1) when every iteration
\* appends two faces:  for i in range(rows): for j in range(cols)  and
\* for k in range(count).
LoopI(n, cols) == ((n - 1) \div 2) \div cols
LoopJ(n, cols) == ((n - 1) \div 2) % cols
LoopK(n) == (n - 1) \div 2

\* ---- scripts/heightmap_to_stl.py and scripts/lithophane.py ----
ScriptTop(w, h) ==
    LET tl(i, j) == i * w + j
        tr(i, j) == i * w + j + 1
        bl(i, j) == (i + 1) * w + j
        br(i, j) == (i + 1) * w + j + 1
        f1(i, j) == <<tl(i, j), bl(i, j), tr(i, j)>>
        f2(i, j) == <<tr(i, j), bl(i, j), br(i, j)>>
    IN  [n \in 1..(2 * (h - 1) * (w - 1)) |->
            IF n % 2 = 1 THEN f1(LoopI(n, w - 1), LoopJ(n, w - 1))
                         ELSE f2(LoopI(n, w - 1), LoopJ(n, w - 1))]

ScriptBottom(w, h) ==
    LET n_top == w * h
        tl(i, j) == n_top + i * w + j
        tr(i, j) == n_top + i * w + j + 1
        bl(i, j) == n_top + (i + 1) * w + j
        br(i, j) == n_top + (i + 1) * w + j + 1
        f1(i, j) == <<tl(i, j), tr(i, j), bl(i, j)>>
        f2(i, j) == <<tr(i, j), br(i, j), bl(i, j)>>
    IN  [n \in 1..(2 * (h - 1) * (w - 1)) |->
            IF n % 2 = 1 THEN f1(LoopI(n, w - 1), LoopJ(n, w - 1))
                         ELSE f2(LoopI(n, w - 1), LoopJ(n, w - 1))]

ScriptLeft(w, h) ==
    LET n_top == w * h
        top_curr(i) == i * w
        top_next(i) == (i + 1) * w
        bot_curr(i) == n_top + i * w
        bot_next(i) == n_top + (i + 1) * w
        f1(i) == <<top_curr(i), bot_curr(i), top_next(i)>>
        f2(i) == <<top_next(i), bot_curr(i), bot_next(i)>>
    IN  [n \in 1..(2 * (h - 1)) |-> IF n % 2 = 1 THEN f1(LoopK(n)) ELSE f2(LoopK(n))]

\* Mutant of ScriptRight: the right wall wound like the left wall.
ScriptRightFlipped(w, h) ==
    LET n_top == w * h
        top_curr(i) == i * w + (w - 1)
        top_next(i) == (i + 1) * w + (w - 1)
        bot_curr(i) == n_top + i * w + (w - 1)
        bot_next(i) == n_top + (i + 1) * w + (w - 1)
        f1(i) == <<top_curr(i), bot_curr(i), top_next(i)>>
        f2(i) == <<top_next(i), bot_curr(i), bot_next(i)>>
    IN  [n \in 1..(2 * (h - 1)) |-> IF n % 2 = 1 THEN f1(LoopK(n)) ELSE f2(LoopK(n))]

ScriptRight(w, h) ==
    LET n_top == w * h
        top_curr(i) == i * w + (w - 1)
        top_next(i) == (i + 1) * w + (w - 1)
        bot_curr(i) == n_top + i * w + (w - 1)
        bot_next(i) == n_top + (i + 1) * w + (w - 1)
        f1(i) == <<top_curr(i), top_next(i), bot_curr(i)>>
        f2(i) == <<top_next(i), bot_next(i), bot_curr(i)>>
    IN  [n \in 1..(2 * (h - 1)) |-> IF n % 2 = 1 THEN f1(LoopK(n)) ELSE f2(LoopK(n))]

ScriptTopEdge(w, h) ==
    LET n_top == w * h
        top_curr(j) == j
        top_next(j) == j + 1
        bot_curr(j) == n_top + j
        bot_next(j) == n_top + j + 1
        f1(j) == <<top_curr(j), top_next(j), bot_curr(j)>>
        f2(j) == <<top_next(j), bot_next(j), bot_curr(j)>>
    IN  [n \in 1..(2 * (w - 1)) |-> IF n % 2 = 1 THEN f1(LoopK(n)) ELSE f2(LoopK(n))]

ScriptBottomEdge(w, h) ==
    LET n_top == w * h
        top_curr(j) == (h - 1) * w + j
        top_next(j) == (h - 1) * w + j + 1
        bot_curr(j) == n_top + (h - 1) * w + j
        bot_next(j) == n_top + (h - 1) * w + j + 1
        f1(j) == <<top_curr(j), bot_curr(j), top_next(j)>>
        f2(j) == <<top_next(j), bot_curr(j), bot_next(j)>>
    IN  [n \in 1..(2 * (w - 1)) |-> IF n % 2 = 1 THEN f1(LoopK(n)) ELSE f2(LoopK(n))]

\* ---- flashforge_convert_mcp/converters.py ----
idx(w, i, j) == i * w + j

McpTop(w, h) ==
    LET f1(i, j) == <<idx(w, i, j), idx(w, i + 1, j), idx(w, i + 1, j + 1)>>
        f2(i, j) == <<idx(w, i, j), idx(w, i + 1, j + 1), idx(w, i, j + 1)>>
    IN  [n \in 1..(2 * (h - 1) * (w - 1)) |->
            IF n % 2 = 1 THEN f1(LoopI(n, w - 1), LoopJ(n, w - 1))
                         ELSE f2(LoopI(n, w - 1), LoopJ(n, w - 1))]

McpBottom(w, h) ==
    LET base_start == w * h
        f1(i, j) == <<base_start + idx(w, i, j), base_start + idx(w, i, j + 1),
                      base_start + idx(w, i + 1, j + 1)>>
        f2(i, j) == <<base_start + idx(w, i, j), base_start + idx(w, i + 1, j + 1),
                      base_start + idx(w, i + 1, j)>>
    IN  [n \in 1..(2 * (h - 1) * (w - 1)) |->
            IF n % 2 = 1 THEN f1(LoopI(n, w - 1), LoopJ(n, w - 1))
                         ELSE f2(LoopI(n, w - 1), LoopJ(n, w - 1))]

\* Mutant of McpRowWalls: the wall of row height - 1 is left out.
McpRowWallsFirstRowOnly(w, h) ==
    LET base_start == w * h
    IN  [n \in 1..(2 * (w - 1)) |->
            LET j == (n - 1) \div 2
            IN  IF n % 2 = 1
                THEN <<idx(w, 0, j), idx(w, 0, j + 1), base_start + idx(w, 0, j + 1)>>
                ELSE <<idx(w, 0, j), base_start + idx(w, 0, j + 1), base_start + idx(w, 0, j)>>]

\* for j in range(width - 1): two faces on row 0, then two on row height - 1.
McpRowWalls(w, h) ==
    LET base_start == w * h
        i == h - 1
    IN  [n \in 1..(4 * (w - 1)) |->
            LET j == (n - 1) \div 4
                k == (n - 1) % 4
            IN  CASE k = 0 -> <<idx(w, 0, j), idx(w, 0, j + 1), base_start + idx(w, 0, j + 1)>>
                  [] k = 1 -> <<idx(w, 0, j), base_start + idx(w, 0, j + 1), base_start + idx(w, 0, j)>>
                  [] k = 2 -> <<idx(w, i, j), base_start + idx(w, i, j), base_start + idx(w, i, j + 1)>>
                  [] OTHER -> <<idx(w, i, j), base_start + idx(w, i, j + 1), idx(w, i, j + 1)>>]

\* for i in range(height - 1): two faces on column 0, then two on column width - 1.
McpColWalls(w, h) ==
    LET base_start == w * h
        j == w - 1
    IN  [n \in 1..(4 * (h - 1)) |->
            LET i == (n - 1) \div 4
                k == (n - 1) % 4
            IN  CASE k = 0 -> <<idx(w, i, 0), base_start + idx(w, i, 0), base_start + idx(w, i + 1, 0)>>
                  [] k = 1 -> <<idx(w, i, 0), base_start + idx(w, i + 1, 0), idx(w, i + 1, 0)>>
                  [] k = 2 -> <<idx(w, i, j), idx(w, i + 1, j), base_start + idx(w, i + 1, j)>>
                  [] OTHER -> <<idx(w, i, j), base_start + idx(w, i + 1, j), base_start + idx(w, i, j)>>]

GridInit ==
    /\ gvariant \in {"script", "mcp"}
    /\ width \in 2..MaxDim
    /\ height \in 2..MaxDim
    /\ \E a \in Levels, b \in Levels, c \in Levels : img = Raster(width, height, a, b, c)
    /\ max_height \in 1..MaxHeightMm
    /\ base_height \in 0..MaxBaseMm
    /\ zz = <<>>
    /\ faces = <<>>
    /\ gpc = "vertices"
    /\ GridRestIdle

\* One step of the builder: the vertex block, then one face loop after another.
GridStep(from, to, fs) ==
    /\ gpc = from
    /\ faces' = faces \o fs
    /\ gpc' = to
    /\ UNCHANGED <<gvariant, width, height, img, max_height, base_height, zz>>
    /\ UNCHANGED gridRest

BuildVertices ==
    /\ gpc = "vertices"
    /\ zz' = Vertices(img, max_height, base_height)
    /\ gpc' = "top"
    /\ UNCHANGED <<gvariant, width, height, img, max_height, base_height, faces>>
    /\ UNCHANGED gridRest

ScriptTopFaces == gvariant = "script" /\ GridStep("top", "bottom", ScriptTop(width, height))
ScriptBottomFaces == gvariant = "script" /\ GridStep("bottom", "left", ScriptBottom(width, height))
ScriptLeftWall == gvariant = "script" /\ GridStep("left", "right", ScriptLeft(width, height))
ScriptRightWall == gvariant = "script" /\ GridStep("right", "topedge", ScriptRight(width, height))
ScriptTopWall == gvariant = "script" /\ GridStep("topedge", "bottomedge", ScriptTopEdge(width, height))
ScriptBottomWall == gvariant = "script" /\ GridStep("bottomedge", "done", ScriptBottomEdge(width, height))

McpTopFaces == gvariant = "mcp" /\ GridStep("top", "bottom", McpTop(width, height))
McpBottomFaces == gvariant = "mcp" /\ GridStep("bottom", "rows", McpBottom(width, height))
McpRowWallFaces == gvariant = "mcp" /\ GridStep("rows", "cols", McpRowWalls(width, height))
McpColWallFaces == gvariant = "mcp" /\ GridStep("cols", "done", McpColWalls(width, height))

GridNext ==
    \/ BuildVertices
    \/ ScriptTopFaces
    \/ ScriptBottomFaces
    \/ ScriptLeftWall
    \/ ScriptRightWall
    \/ ScriptTopWall
    \/ ScriptBottomWall
    \/ McpTopFaces
    \/ McpBottomFaces
    \/ McpRowWallFaces
    \/ McpColWallFaces

SpecGrid == GridInit /\ [][GridNext]_vars

(***************************************************************************)
(* The mesh handed to trimesh and its edge pairing                         *)
(***************************************************************************)

\* trimesh.Trimesh(vertices=..., faces=...) merges vertices at one position.
\* Within a block all (x, y) differ, so only a top vertex of height 0 and the
\* bottom vertex below it coincide: the bottom index is replaced by the top one.
MergedIndex(z, n, v) == IF v >= n /\ z[v - n] = 0 THEN v - n ELSE v

MergedFaces(fs, z, n) ==
    [k \in DOMAIN fs |-> <<MergedIndex(z, n, fs[k][1]), MergedIndex(z, n, fs[k][2]),
                           MergedIndex(z, n, fs[k][3])>>]

\* The directed edges a triangle traverses.
FaceEdge(f, k) == <<f[k], f[(k % 3) + 1]>>

DirectedEdges(fs) == {FaceEdge(fs[n], k) : n \in DOMAIN fs, k \in 1..3}

\* Every undirected edge is in exactly two triangles, which traverse it in
\* opposite directions: no directed edge occurs twice, none is degenerate, and
\* the reverse of each occurs.
Watertight(fs) ==
    LET E == DirectedEdges(fs)
    IN  /\ Cardinality(E) = 3 * Len(fs)
        /\ \A e \in E : e[1] # e[2] /\ <<e[2], e[1]>> \in E

\* The mesh create_heightmap_mesh returns.
GridMesh == MergedFaces(faces, zz, width * height)

MaxOf(S) == CHOOSE x \in S : \A y \in S : y <= x
MinOf(S) == CHOOSE x \in S : \A y \in S : x <= y
Range(f) == {f[x] : x \in DOMAIN f}

\* max Z - min Z of the vertices, times 255.
ExtentZ255 == MaxOf(Range(zz)) - MinOf(Range(zz))

AllHeightsPositive == \A p \in DOMAIN img : Heights(img, max_height, base_height)[p] > 0
NonConstantRaster == Cardinality(Range(img)) > 1

(***************************************************************************)
(* Claims about the grid mesh builder                                      *)
(***************************************************************************)

\* C1: for every grid with width >= 2, height >= 2 and strictly positive
\* heights, the emitted triangle list (top, bottom, four walls) is watertight:
\* every undirected edge is in exactly two triangles of opposite direction.
C1_GridWatertight ==
    (gpc = "done" /\ AllHeightsPositive) => Watertight(GridMesh)

C1_Witness ==
    /\ gpc = "done"
    /\ AllHeightsPositive
    /\ NonConstantRaster
    /\ width = 3
    /\ height = 4

\* C2: a W x H grid gives 2(W-1)(H-1) top triangles, as many bottom triangles
\* and two triangles per perimeter segment: 4(W-1)(H-1) + 4((W-1)+(H-1)) in all.
C2_TriangleCount ==
    LET cells == (width - 1) * (height - 1)
    IN  /\ gpc = "bottom" => Len(faces) = 2 * cells
        /\ gpc \in {"left", "rows"} => Len(faces) = 4 * cells
        /\ gpc \in {"right", "cols"} =>
               Len(faces) \in {4 * cells + 2 * (height - 1), 4 * cells + 4 * (width - 1)}
        /\ gpc = "done" => Len(faces) = 4 * cells + 4 * ((width - 1) + (height - 1))

C2_Witness ==
    /\ gpc = "done"
    /\ width = 4
    /\ height = 3
    /\ Len(faces) = 44

\* C3 as stated: with base_height = 0 and a non-constant raster the vertical
\* extent of the mesh equals max_height.
C3_ExtentEqualsMaxHeight ==
    (gpc = "done" /\ base_height = 0 /\ NonConstantRaster) =>
        ExtentZ255 = 255 * max_height

\* C3 amended: with base_height = 0 the vertical extent equals
\* max_height * (brightest intensity) / 255, hence max_height exactly when the
\* raster holds a pixel of intensity 255.
C3_ExtentIsBrightestShare ==
    (gpc = "done" /\ base_height = 0 /\ NonConstantRaster) =>
        /\ ExtentZ255 = MaxOf(Range(img)) * max_height
        /\ (ExtentZ255 = 255 * max_height) <=> (255 \in Range(img))

C3_Witness ==
    /\ gpc = "done"
    /\ base_height = 0
    /\ NonConstantRaster
    /\ MaxOf(Range(img)) = 100
    /\ ExtentZ255 = 100 * max_height

(***************************************************************************)
(* Meshes as bounds, and scale_to_fit                                      *)
(*                                                                         *)
(* A bounded mesh is [lo, hi, den]: mesh.bounds[0] and mesh.bounds[1] as   *)
(* numerators over the denominator den > 0.                                *)
(***************************************************************************)
MAX_BUILD_X == 220
MAX_BUILD_Y == 220
MAX_BUILD_Z == 220

MaxExt == 3          \* input extents range over 0..MaxExt (and over BigExt)
MaxBuild == 2        \* explicit build volumes range over 1..MaxBuild per axis

\* An extent larger than the default build volume.
BigExt == 440

Axes == 1..3

\* dimensions = bounds[1] - bounds[0], as numerators over m.den
Dimensions(m) == [k \in Axes |-> m.hi[k] - m.lo[k]]

Abs(x) == IF x < 0 THEN -x ELSE x

\* Fractions <<n, d>> with d > 0.
FracLess(f, g) == f[1] * g[2] < g[1] * f[2]
FracLeq(f, g) == f[1] * g[2] <= g[1] * f[2]
MinFrac(S) == CHOOSE f \in S : \A g \in S : FracLeq(f, g)

\* mesh.apply_scale(scale): every coordinate is multiplied by scale = <<n, d>>.
ApplyScale(m, f) ==
    [lo |-> [k \in Axes |-> m.lo[k] * f[1]],
     hi |-> [k \in Axes |-> m.hi[k] * f[1]],
     den |-> m.den * f[2]]

\* max_x = max_x or MAX_BUILD_X
OrDefault(arg, default) == IF arg = 0 THEN default ELSE arg

\* Mutant of ScaleToFitUtils: the  if scale < 1.0  guard is dropped.
ScaleToFitUtilsAlways(m, args) ==
    LET mx == <<OrDefault(args[1], MAX_BUILD_X), OrDefault(args[2], MAX_BUILD_Y),
                OrDefault(args[3], MAX_BUILD_Z)>>
        dimensions == Dimensions(m)
        scale_factors == {<<mx[k] * m.den, dimensions[k]>> : k \in {a \in Axes : dimensions[a] > 0}}
    IN  IF scale_factors = {} THEN m ELSE ApplyScale(m, MinFrac(scale_factors))

\* scripts/utils.py scale_to_fit
ScaleToFitUtils(m, args) ==
    LET mx == <<OrDefault(args[1], MAX_BUILD_X), OrDefault(args[2], MAX_BUILD_Y),
                OrDefault(args[3], MAX_BUILD_Z)>>
        dimensions == Dimensions(m)
        scale_factors == {<<mx[k] * m.den, dimensions[k]>> : k \in {a \in Axes : dimensions[a] > 0}}
        scale == MinFrac(scale_factors)
    IN  IF scale_factors = {} THEN m
        ELSE IF FracLess(scale, <<1, 1>>) THEN ApplyScale(m, scale)
        ELSE m

\* flashforge_convert_mcp/converters.py scale_to_fit; an argument that is not
\* given takes its default MAX_BUILD_*.
ScaleToFitMcp(m, args) ==
    LET mx == <<OrDefault(args[1], MAX_BUILD_X), OrDefault(args[2], MAX_BUILD_Y),
                OrDefault(args[3], MAX_BUILD_Z)>>
        size == Dimensions(m)
        scale_factors == {<<mx[k] * m.den, size[k]>> : k \in {a \in Axes : size[a] > mx[a] * m.den}}
    IN  IF scale_factors # {} THEN ApplyScale(m, MinFrac(scale_factors)) ELSE m

\* The build volume a call uses.
BuildVolume(args) ==
    <<OrDefault(args[1], MAX_BUILD_X), OrDefault(args[2], MAX_BUILD_Y),
      OrDefault(args[3], MAX_BUILD_Z)>>

ExtValues == (0..MaxExt) \cup {BigExt}

FitInit ==
    /\ fit_variant \in {"utils", "mcp"}
    /\ fit_args \in [Axes -> 0..MaxBuild]
    /\ \E lo \in {-1, 0}, ex \in [Axes -> ExtValues] :
           fit_in = [lo |-> [k \in Axes |-> lo], hi |-> [k \in Axes |-> lo + ex[k]], den |-> 1]
    /\ fit_mesh = fit_in
    /\ fit_pc = "call"
    /\ FitRestIdle

ScaleToFitUtilsCall ==
    /\ fit_pc = "call"
    /\ fit_variant = "utils"
    /\ fit_mesh' = ScaleToFitUtils(fit_mesh, fit_args)
    /\ fit_pc' = "returned"
    /\ UNCHANGED <<fit_variant, fit_args, fit_in>>
    /\ UNCHANGED fitRest

ScaleToFitMcpCall ==
    /\ fit_pc = "call"
    /\ fit_variant = "mcp"
    /\ fit_mesh' = ScaleToFitMcp(fit_mesh, fit_args)
    /\ fit_pc' = "returned"
    /\ UNCHANGED <<fit_variant, fit_args, fit_in>>
    /\ UNCHANGED fitRest

FitNext ==
    \/ ScaleToFitUtilsCall
    \/ ScaleToFitMcpCall

SpecFit == FitInit /\ [][FitNext]_vars

\* Whether mesh m fits the build volume mx on every axis.
FitsVolume(m, mx) == \A k \in Axes : Dimensions(m)[k] <= mx[k] * m.den

\* Whether b is a scaled by one common factor q with 0 <= q <= 1.
ScaledDownUniformly(a, b) ==
    LET ca == <<a.lo[1], a.lo[2], a.lo[3], a.hi[1], a.hi[2], a.hi[3]>>
        cb == <<b.lo[1], b.lo[2], b.lo[3], b.hi[1], b.hi[2], b.hi[3]>>
    IN  /\ \A i \in 1..6, j \in 1..6 : cb[i] * ca[j] = cb[j] * ca[i]
        /\ \A i \in 1..6 : /\ cb[i] * ca[i] >= 0
                           /\ Abs(cb[i]) * a.den <= Abs(ca[i]) * b.den
                           /\ ca[i] = 0 => cb[i] = 0

\* C7: after scale_to_fit no axis extent exceeds the build volume, the three
\* extents were multiplied by one common factor <= 1, and a mesh that already
\* fits is left exactly unchanged.
C7_ScaleToFit ==
    fit_pc = "returned" =>
        /\ FitsVolume(fit_mesh, BuildVolume(fit_args))
        /\ ScaledDownUniformly(fit_in, fit_mesh)
        /\ FitsVolume(fit_in, BuildVolume(fit_args)) => fit_mesh = fit_in

\* A mesh that was scaled down: too large on two axes, by different ratios.
C7_Witness ==
    /\ fit_pc = "returned"
    /\ fit_args = <<1, 0, 2>>
    /\ Dimensions(fit_in) = <<3, 2, 3>>
    /\ fit_mesh # fit_in
    /\ Dimensions(fit_mesh)[1] = fit_mesh.den

(***************************************************************************)
(* Meshes of bodies                                                        *)
(*                                                                         *)
(* A mesh is [bodies, den]: bodies is the sequence mesh.split returns; a   *)
(* body is [verts, solid] with verts its vertices (numerators over the     *)
(* mesh's den) and solid its closed surface: "box", "octa", or "none" for  *)
(* a surface with a face missing.  Meshes are kept in lowest terms.        *)
(***************************************************************************)
MaxUnit == 1         \* input meshes are the catalogue's, magnified 1..MaxUnit times

Dot(a, b) == a[1] * b[1] + a[2] * b[2] + a[3] * b[3]
Cross(a, b) == <<a[2] * b[3] - a[3] * b[2], a[3] * b[1] - a[1] * b[3], a[1] * b[2] - a[2] * b[1]>>
Neg(a) == <<-a[1], -a[2], -a[3]>>

AllVerts(m) == UNION {m.bodies[k].verts : k \in DOMAIN m.bodies}

\* mesh.bounds, as numerators over m.den
Bounds(V) ==
    [lo |-> [k \in Axes |-> MinOf({p[k] : p \in V})],
     hi |-> [k \in Axes |-> MaxOf({p[k] : p \in V})]]

\* bounding_box.extents, as numerators over the mesh's den
Extents(V) == [k \in Axes |-> Bounds(V).hi[k] - Bounds(V).lo[k]]

Divides(g, x) == x % g = 0

\* The mesh in lowest terms: the same coordinates, the smallest denominator.
Normalize(m) ==
    LET nums == UNION {{p[1], p[2], p[3]} : p \in AllVerts(m)}
        ok(g) == Divides(g, m.den) /\ \A x \in nums : Divides(g, x)
        g == CHOOSE c \in 1..m.den : ok(c) /\ \A h \in 1..m.den : ok(h) => h <= c
    IN  [bodies |-> [k \in DOMAIN m.bodies |->
                        [m.bodies[k] EXCEPT !.verts = {<<p[1] \div g, p[2] \div g, p[3] \div g>> : p \in @}]],
         den |-> m.den \div g]

\* Every vertex p becomes M p / d, for an integer matrix M and a divisor d > 0.
Transform(m, M, d) ==
    Normalize([bodies |-> [k \in DOMAIN m.bodies |->
                             [m.bodies[k] EXCEPT !.verts = {<<Dot(M[1], p), Dot(M[2], p), Dot(M[3], p)>> : p \in @}]],
               den |-> m.den * d])

\* mesh.apply_translation(t), t = tn / td in millimetres
Translate(m, tn, td) ==
    Normalize([bodies |-> [k \in DOMAIN m.bodies |->
                             [m.bodies[k] EXCEPT !.verts =
                                 {<<p[1] * td + tn[1] * m.den, p[2] * td + tn[2] * m.den,
                                    p[3] * td + tn[3] * m.den>> : p \in @}]],
               den |-> m.den * td])

\* mesh.apply_scale(f) on a mesh of bodies, f = <<n, d>> with n, d > 0
ScaleMesh(m, f) ==
    Normalize([bodies |-> [k \in DOMAIN m.bodies |->
                             [m.bodies[k] EXCEPT !.verts = {<<p[1] * f[1], p[2] * f[1], p[3] * f[1]>> : p \in @}]],
               den |-> m.den * f[2]])

\* ---- the input meshes ----
BoxVerts(lo, hi) == {<<x, y, z>> : x \in {lo[1], hi[1]}, y \in {lo[2], hi[2]}, z \in {lo[3], hi[3]}}

\* A closed box.
Box(lo, hi) == [verts |-> BoxVerts(lo, hi), solid |-> "box"]

\* A closed octahedron of centre c and radius r.
OctaVerts(c, r) ==
    {<<c[1] - r, c[2], c[3]>>, <<c[1] + r, c[2], c[3]>>, <<c[1], c[2] - r, c[3]>>,
     <<c[1], c[2] + r, c[3]>>, <<c[1], c[2], c[3] - r>>, <<c[1], c[2], c[3] + r>>}
Octa(c, r) == [verts |-> OctaVerts(c, r), solid |-> "octa"]

\* Vertices whose surface has a face missing (or is flat): not watertight.
OpenBody(V) == [verts |-> V, solid |-> "none"]

\* The meshes a model file may hold, in file units (den = 1).
Catalogue ==
    { <<Box(<<0, 0, 0>>, <<2, 2, 4>>)>>,                                       \* upright
      <<Box(<<0, 0, 0>>, <<4, 2, 2>>)>>,                                       \* lying along X
      <<Box(<<0, 0, 0>>, <<2, 4, 2>>)>>,                                       \* lying along Y
      <<Box(<<0, 0, 0>>, <<20, 20, 20>>), Box(<<9, 9, 21>>, <<11, 11, 23>>)>>, \* V and 0.001 V
      <<Box(<<0, 0, 0>>, <<2, 2, 4>>), Box(<<0, 0, 5>>, <<2, 2, 7>>)>>,        \* V and V / 2
      <<Box(<<5, 0, 0>>, <<6, 2, 2>>), Box(<<0, 0, 0>>, <<4, 2, 2>>)>>,        \* lying, V / 4 and V
      <<Box(<<0, 0, 0>>, <<2, 2, 4>>), Octa(<<1, 1, 6>>, 1)>>,                 \* V and V / 12
      <<Box(<<0, 0, 0>>, <<2, 2, 4>>), OpenBody(OctaVerts(<<1, 1, 6>>, 1))>>,  \* open: box 8
      <<Box(<<0, 0, 0>>, <<2, 2, 4>>), Box(<<0, 0, 5>>, <<2, 2, 6>>),
        Box(<<0, 0, -2>>, <<2, 2, -1>>)>>,                                     \* V, V / 4, V / 4
      <<OpenBody(BoxVerts(<<0, 0, 0>>, <<2, 2, 0>>)),
        OpenBody(BoxVerts(<<0, 0, 3>>, <<2, 2, 3>>))>>,                        \* two flat patches
      <<OpenBody(BoxVerts(<<0, 0, 0>>, <<4, 2, 0>>))>>,                        \* one flat patch
      <<OpenBody({<<0, 0, 0>>, <<0, 2, 0>>, <<6, 0, 8>>, <<6, 2, 8>>})>>,      \* tilted 3:4
      <<OpenBody({<<0, 0, 0>>, <<2, 0, 0>>, <<0, 5, 12>>, <<2, 5, 12>>})>> }   \* tilted 5:12

Magnified(bs, u) ==
    [k \in DOMAIN bs |->
        [verts |-> {<<p[1] * u, p[2] * u, p[3] * u>> : p \in bs[k].verts},
         solid |-> bs[k].solid]]

\* trimesh.load(input_path): file units are millimetres.
LoadedMesh(bs, u) == [bodies |-> Magnified(bs, u), den |-> 1]

(***************************************************************************)
(* Principal axes                                                          *)
(***************************************************************************)
RECURSIVE SumOver(_, _, _)
\* The sum of p[i] * p[j] over p in S (p[i] alone when j = 0).
SumOver(S, i, j) ==
    IF S = {} THEN 0
    ELSE LET p == CHOOSE q \in S : TRUE
         IN  (IF j = 0 THEN p[i] ELSE p[i] * p[j]) + SumOver(S \ {p}, i, j)

\* centered = vertices - mean; np.cov(centered.T), times N * N * (N - 1).
Covariance(V) ==
    LET N == Cardinality(V)
        Q == {<<N * p[1] - SumOver(V, 1, 0), N * p[2] - SumOver(V, 2, 0),
                N * p[3] - SumOver(V, 3, 0)>> : p \in V}
    IN  [i \in Axes |-> [j \in Axes |-> SumOver(Q, i, j)]]

MatVec(C, a) == <<Dot(C[1], a), Dot(C[2], a), Dot(C[3], a)>>

IsEigenvector(C, a) == Cross(MatVec(C, a), a) = <<0, 0, 0>>

\* eigenvalue(a) > eigenvalue(b), for eigenvectors a and b
EigenGreater(C, a, b) ==
    LET ra == Dot(a, MatVec(C, a))
        rb == Dot(b, MatVec(C, b))
    IN  IF Dot(a, a) = Dot(b, b) THEN ra > rb ELSE ra * Dot(b, b) > rb * Dot(a, a)

\* Orthogonal integer frames <<a, b, c>> with a of integer length.
Frames ==
    { <<<<0, 0, 1>>, <<1, 0, 0>>, <<0, 1, 0>>>>,
      <<<<1, 0, 0>>, <<0, 1, 0>>, <<0, 0, 1>>>>,
      <<<<0, 1, 0>>, <<0, 0, 1>>, <<1, 0, 0>>>>,
      <<<<3, 0, 4>>, <<0, 1, 0>>, <<4, 0, -3>>>>,
      <<<<0, 5, 12>>, <<1, 0, 0>>, <<0, 12, -5>>>> }

\* eigenvectors[:, order][:, 0]: fr[1] spans the eigenspace of the largest
\* eigenvalue of the covariance of V.
IsPrincipalFrame(V, fr) ==
    LET C == Covariance(V)
    IN  /\ \A k \in 1..3 : IsEigenvector(C, fr[k])
        /\ EigenGreater(C, fr[1], fr[2])
        /\ EigenGreater(C, fr[1], fr[3])

\* The length of an integer vector of integer length.
Norm(a) == CHOOSE n \in 0..Dot(a, a) : n * n = Dot(a, a)

(***************************************************************************)
(* auto_orient_upright                                                     *)
(*                                                                         *)
(* a is an integer vector along the first principal component, of integer  *)
(* length n; the unit vector of the code is a / n.                         *)
(***************************************************************************)
\* The test with a threshold of 0.75.
AlreadyVerticalLax(a) == 4 * Abs(a[3]) > 3 * Norm(a)

\* alignment = abs(dot(longest_axis, [0, 0, 1])) > 0.9
AlreadyVertical(a) == 10 * Abs(a[3]) > 9 * Norm(a)

\* D * (I + vx + vx @ vx * ((1 - c) / (s * s))) for v = cross(a / n, z),
\* s = |v|, c = dot(a / n, z), with D = n * (n + a[3]).
RodriguesMatrix(a) ==
    LET n == Norm(a)
        D == n * (n + a[3])
    IN  << <<D - a[1] * a[1], -(a[1] * a[2]), -(a[1] * (n + a[3]))>>,
           <<-(a[1] * a[2]), D - a[2] * a[2], -(a[2] * (n + a[3]))>>,
           <<a[1] * (n + a[3]), a[2] * (n + a[3]), D - a[1] * a[1] - a[2] * a[2]>> >>

AutoOrientUpright(m, a) ==
    IF AlreadyVertical(a) THEN m
    ELSE IF a[1] = 0 /\ a[2] = 0        \* s < 1e-6
         THEN IF a[3] < 0
              THEN Transform(m, << <<1, 0, 0>>, <<0, -1, 0>>, <<0, 0, -1>> >>, 1)
              ELSE m
         ELSE Transform(m, RodriguesMatrix(a), Norm(a) * (Norm(a) + a[3]))

(***************************************************************************)
(* Body split and floating-piece removal                                   *)
(***************************************************************************)
ProdExtents(b) == Extents(b.verts)[1] * Extents(b.verts)[2] * Extents(b.verts)[3]

\* body.is_volume
IsVolume(b) == b.solid # "none" /\ ProdExtents(b) > 0

\* The volume the loop appends to body_volumes, in units of 1 / (6 den^3):
\* abs(body.volume) of a closed body, else the bounding box volume.
MeasuredVolume(b) ==
    LET vol == IF IsVolume(b)
               THEN (IF b.solid = "box" THEN 6 * ProdExtents(b) ELSE ProdExtents(b))
               ELSE 0
    IN  IF vol = 0 THEN 6 * ProdExtents(b) ELSE vol

\* ratio >= min_body_ratio, with ratio = vol / max_vol if max_vol > 0 else 0
RatioAtLeast(vol, max_vol, r) ==
    IF max_vol > 0 THEN vol * r[2] >= r[1] * max_vol ELSE 0 >= r[1]

\* The i-th smallest element of a set of numbers.
NthOf(K, i) == CHOOSE k \in K : Cardinality({j \in K : j < k}) = i - 1

\* The bodies of bs at the positions in K, in order.
BodiesAt(bs, K) == [i \in 1..Cardinality(K) |-> bs[NthOf(K, i)]]

\* Lines 131-159: returns the mesh that goes on and the removed_bodies count.
RemoveFloating(m, args) ==
    LET bodies == m.bodies
        max_vol == MaxOf({MeasuredVolume(bodies[k]) : k \in DOMAIN bodies})
        kept == {k \in DOMAIN bodies :
                    RatioAtLeast(MeasuredVolume(bodies[k]), max_vol, args.min_body_ratio)}
    IN  IF args.remove_floating /\ Len(bodies) > 1
        THEN [mesh |-> IF kept # {}
                       THEN Normalize([bodies |-> BodiesAt(bodies, kept), den |-> m.den])
                       ELSE m,
              removed_bodies |-> Len(bodies) - Cardinality(kept)]
        ELSE [mesh |-> m, removed_bodies |-> 0]

(***************************************************************************)
(* Scale, re-center, base plate, build-volume check                        *)
(***************************************************************************)
\* The inverse factor, current_height / target_height_mm.
ScaleFactorInverted(m, target) == <<Extents(AllVerts(m))[3], target * m.den>>

\* scale_factor = target_height_mm / current_height, as <<numerator, denominator>>
ScaleFactor(m, target) == <<target * m.den, Extents(AllVerts(m))[3]>>

\* Centering on XY alone, the bottom left where it is.
RecenterXYOnly(m) ==
    LET b == Bounds(AllVerts(m))
    IN  Translate(m, <<-(b.lo[1] + b.hi[1]), -(b.lo[2] + b.hi[2]), 0>>, 2 * m.den)

\* Lines 169-171: center on XY and place the bottom at Z = 0.
Recenter(m) ==
    LET b == Bounds(AllVerts(m))
    IN  Translate(m, <<-(b.lo[1] + b.hi[1]), -(b.lo[2] + b.hi[2]), -(2 * b.lo[3])>>, 2 * m.den)

\* trimesh.util.concatenate([a, b])
Concatenate(a, b) ==
    LET scaled(m, f) == [k \in DOMAIN m.bodies |->
                            [m.bodies[k] EXCEPT !.verts = {<<p[1] * f, p[2] * f, p[3] * f>> : p \in @}]]
    IN  Normalize([bodies |-> scaled(a, b.den) \o scaled(b, a.den), den |-> a.den * b.den])

\* Lines 180-196: the box of extents [base_width, base_depth, base_height_mm],
\* moved down by base_height_mm / 2; the model moved up by base_height_mm.
AddBasePlate(m, args) ==
    LET scaled_dims == Extents(AllVerts(m))
        base_width == scaled_dims[1] + 2 * args.base_padding_mm * m.den
        base_depth == scaled_dims[2] + 2 * args.base_padding_mm * m.den
        base == [bodies |-> <<Box(<<-base_width, -base_depth, -(2 * args.base_height_mm * m.den)>>,
                                  <<base_width, base_depth, 0>>)>>,
                 den |-> 2 * m.den]
    IN  Concatenate(Translate(m, <<0, 0, args.base_height_mm>>, 1), base)

\* A check with a strict bound.
FitsStrictly(m) == \A k \in Axes : Extents(AllVerts(m))[k] < 220 * m.den

\* fits = all(d <= max_dim for d in final_dims), max_dim = 220
FitsBuildVolume(m) == \A k \in Axes : Extents(AllVerts(m))[k] <= 220 * m.den

(***************************************************************************)
(* fix_model: one run, stage by stage                                      *)
(***************************************************************************)
Targets == {80, 220, 300}                       \* target_height_mm
BaseHeights == {0, 2}                           \* base_height_mm
Ratios == {<<1, 100>>, <<1, 2>>, <<2, 1>>}      \* min_body_ratio: 0.01, 0.5, 2

FixArgs ==
    [target_height_mm : Targets, base_height_mm : BaseHeights, base_padding_mm : {3},
     remove_floating : BOOLEAN, min_body_ratio : Ratios, auto_orient : BOOLEAN]

\* The position after scale and center are exchanged.
StageAfterSwapped(pc) ==
    CASE pc = "orient" -> "split"
      [] pc = "split" -> "center"
      [] pc = "center" -> "scale"
      [] pc = "scale" -> "base"
      [] pc = "base" -> "check"
      [] pc = "check" -> "done"

\* The statement order of fix_model, lines 118-213.
StageAfter(pc) ==
    CASE pc = "orient" -> "split"
      [] pc = "split" -> "scale"
      [] pc = "scale" -> "center"
      [] pc = "center" -> "base"
      [] pc = "base" -> "check"
      [] pc = "check" -> "done"

\* A loaded mesh, the arguments of the call, and the eigenvector eigh returns
\* for the largest eigenvalue (its sign is not determined).
LoadInit ==
    /\ \E bs \in Catalogue, u \in 1..MaxUnit :
          fx_mesh = LoadedMesh(bs, u)
    /\ \E fr \in Frames :
          /\ IsPrincipalFrame(AllVerts(fx_mesh), fr)
          /\ fx_axis \in {fr[1], Neg(fr[1])}
    /\ fx_args \in FixArgs
    /\ fx_prev = fx_mesh
    /\ fx_removed = 0
    /\ fx_scale = <<1, 1>>
    /\ fx_fits = FALSE
    /\ fx_exported = <<>>
    /\ fx_log = <<>>

FixInit ==
    /\ LoadInit
    /\ fx_pc = "orient"
    /\ FixRestIdle

\* Lines 119-121
Orient ==
    /\ fx_pc = "orient"
    /\ fx_prev' = fx_mesh
    /\ fx_mesh' = IF fx_args.auto_orient THEN AutoOrientUpright(fx_mesh, fx_axis) ELSE fx_mesh
    /\ fx_log' = IF fx_args.auto_orient THEN Append(fx_log, "orient") ELSE fx_log
    /\ fx_pc' = StageAfter("orient")
    /\ UNCHANGED <<fx_args, fx_axis, fx_removed, fx_scale, fx_fits, fx_exported>>
    /\ UNCHANGED fixRest

\* Lines 131-159
SplitAndRemove ==
    /\ fx_pc = "split"
    /\ fx_prev' = fx_mesh
    /\ fx_mesh' = RemoveFloating(fx_mesh, fx_args).mesh
    /\ fx_removed' = RemoveFloating(fx_mesh, fx_args).removed_bodies
    /\ fx_log' = IF fx_args.remove_floating /\ Len(fx_mesh.bodies) > 1
                 THEN Append(fx_log, "remove") ELSE fx_log
    /\ fx_pc' = StageAfter("split")
    /\ UNCHANGED <<fx_args, fx_axis, fx_scale, fx_fits, fx_exported>>
    /\ UNCHANGED fixRest

\* Lines 162-166.  With current_height = 0 the factor is inf and every
\* coordinate becomes inf or nan; the run is not followed further.
Scale ==
    /\ fx_pc = "scale"
    /\ fx_prev' = fx_mesh
    /\ IF Extents(AllVerts(fx_mesh))[3] = 0
       THEN /\ fx_pc' = "nan"
            /\ UNCHANGED <<fx_mesh, fx_scale, fx_log>>
       ELSE /\ fx_scale' = ScaleFactor(fx_mesh, fx_args.target_height_mm)
            /\ fx_mesh' = ScaleMesh(fx_mesh, ScaleFactor(fx_mesh, fx_args.target_height_mm))
            /\ fx_log' = Append(fx_log, "scale")
            /\ fx_pc' = StageAfter("scale")
    /\ UNCHANGED <<fx_args, fx_axis, fx_removed, fx_fits, fx_exported>>
    /\ UNCHANGED fixRest

\* Lines 169-171
Center ==
    /\ fx_pc = "center"
    /\ fx_prev' = fx_mesh
    /\ fx_mesh' = Recenter(fx_mesh)
    /\ fx_log' = Append(fx_log, "center")
    /\ fx_pc' = StageAfter("center")
    /\ UNCHANGED <<fx_args, fx_axis, fx_removed, fx_scale, fx_fits, fx_exported>>
    /\ UNCHANGED fixRest

\* Lines 179-196
BasePlate ==
    /\ fx_pc = "base"
    /\ fx_prev' = fx_mesh
    /\ fx_mesh' = IF fx_args.base_height_mm > 0 THEN AddBasePlate(fx_mesh, fx_args) ELSE fx_mesh
    /\ fx_log' = IF fx_args.base_height_mm > 0 THEN Append(fx_log, "base") ELSE fx_log
    /\ fx_pc' = StageAfter("base")
    /\ UNCHANGED <<fx_args, fx_axis, fx_removed, fx_scale, fx_fits, fx_exported>>
    /\ UNCHANGED fixRest

\* Lines 201-213: the check is reported, the mesh is exported as it is.
CheckAndExport ==
    /\ fx_pc = "check"
    /\ fx_prev' = fx_mesh
    /\ fx_fits' = FitsBuildVolume(fx_mesh)
    /\ fx_exported' = fx_mesh
    /\ fx_pc' = StageAfter("check")
    /\ UNCHANGED <<fx_args, fx_axis, fx_mesh, fx_removed, fx_scale, fx_log>>
    /\ UNCHANGED fixRest

FixNext == Orient \/ SplitAndRemove \/ Scale \/ Center \/ BasePlate \/ CheckAndExport

SpecFix == FixInit /\ [][FixNext]_vars

(***************************************************************************)
(* The removal stage run on its own output                                 *)
(***************************************************************************)
RemoveInit ==
    /\ LoadInit
    /\ fx_pc = "first"
    /\ FixRestIdle

RemoveOnce(from, to) ==
    /\ fx_pc = from
    /\ fx_prev' = fx_mesh
    /\ fx_mesh' = RemoveFloating(fx_mesh, fx_args).mesh
    /\ fx_removed' = RemoveFloating(fx_mesh, fx_args).removed_bodies
    /\ fx_log' = Append(fx_log, "remove")
    /\ fx_pc' = to
    /\ UNCHANGED <<fx_args, fx_axis, fx_scale, fx_fits, fx_exported>>
    /\ UNCHANGED fixRest

RemoveFirst == RemoveOnce("first", "second")

RemoveSecond == RemoveOnce("second", "twice")

RemoveNext == RemoveFirst \/ RemoveSecond

SpecRemove == RemoveInit /\ [][RemoveNext]_vars

(***************************************************************************)
(* Properties of fix_model                                                 *)
(***************************************************************************)
\* The positions of bs whose measured volume, divided by the largest, is below r.
BelowThreshold(bs, r) ==
    LET max_vol == MaxOf({MeasuredVolume(bs[k]) : k \in DOMAIN bs})
    IN  {k \in DOMAIN bs : ~RatioAtLeast(MeasuredVolume(bs[k]), max_vol, r)}

RemovalRan == fx_args.remove_floating /\ Len(fx_prev.bodies) > 1

\* C4 (as stated): after the removal stage on a mesh of two or more bodies,
\* the reassembled mesh holds exactly the bodies whose volume ratio is not
\* below the threshold, and removed_bodies is the number of bodies discarded.
C4_RemovalExact ==
    (fx_pc = "scale" /\ RemovalRan) =>
        LET gone == BelowThreshold(fx_prev.bodies, fx_args.min_body_ratio)
        IN  /\ fx_mesh.bodies = BodiesAt(fx_prev.bodies, DOMAIN fx_prev.bodies \ gone)
            /\ fx_removed = Cardinality(gone)
            /\ fx_removed = Len(fx_prev.bodies) - Len(fx_mesh.bodies)

\* C5 (as stated): the second run of the removal on the output of the first
\* reports removed_bodies = 0 and returns the same bodies.
C5_RemovalIdempotent ==
    fx_pc = "twice" => (fx_removed = 0 /\ fx_mesh = fx_prev)

\* Body k of b is body k of a with every coordinate multiplied by n / d.
BodiesMultiplied(a, b, n, d) ==
    /\ DOMAIN a.bodies = DOMAIN b.bodies
    /\ \A k \in DOMAIN a.bodies :
          {<<q[1] * a.den * d, q[2] * a.den * d, q[3] * a.den * d>> : q \in b.bodies[k].verts}
            = {<<p[1] * b.den * n, p[2] * b.den * n, p[3] * b.den * n>> : p \in a.bodies[k].verts}

\* C6: after the scale stage on a mesh of nonzero vertical extent, the
\* vertical extent is the target height and every coordinate of every vertex
\* was multiplied by target_height_mm / current_height.
C6_ScaleToTargetHeight ==
    fx_pc = "center" =>
        LET current_height == Extents(AllVerts(fx_prev))[3]      \* over fx_prev.den
        IN  /\ current_height > 0
            /\ Extents(AllVerts(fx_mesh))[3] = fx_args.target_height_mm * fx_mesh.den
            /\ fx_scale[1] * current_height = fx_scale[2] * fx_args.target_height_mm * fx_prev.den
            /\ BodiesMultiplied(fx_prev, fx_mesh, fx_args.target_height_mm * fx_prev.den, current_height)

\* A mesh of several bodies, wider than tall, scaled by a factor other than 1.
C6_Witness ==
    /\ fx_pc = "center"
    /\ Len(fx_mesh.bodies) > 1
    /\ Extents(AllVerts(fx_prev))[1] > Extents(AllVerts(fx_prev))[3]
    /\ fx_scale[1] # fx_scale[2]

StageRank(st) ==
    CASE st = "orient" -> 1 [] st = "remove" -> 2 [] st = "scale" -> 3
      [] st = "center" -> 4 [] st = "base" -> 5

\* C9: the stages that ran did so in the order auto-orient, removal, scale,
\* re-center, base plate, whichever optional stages are switched off; a
\* finished run scaled and re-centered, and ran the optional stages only
\* when they were requested.
C9_StageOrder ==
    /\ \A i, j \in DOMAIN fx_log : i < j => StageRank(fx_log[i]) < StageRank(fx_log[j])
    /\ fx_pc = "done" =>
          LET ran == {fx_log[i] : i \in DOMAIN fx_log}
          IN  /\ {"scale", "center"} \subseteq ran
              /\ "orient" \in ran <=> fx_args.auto_orient
              /\ "remove" \in ran => fx_args.remove_floating
              /\ "base" \in ran <=> fx_args.base_height_mm > 0

\* A finished run with an optional stage switched off between two that ran.
C9_Witness ==
    /\ fx_pc = "done"
    /\ fx_log = <<"orient", "scale", "center", "base">>
    /\ ~fx_args.remove_floating

\* C10: after auto-orientation, the vertices are exactly those before when
\* the absolute cosine between the principal axis and the vertical is above
\* 0.9, and they are rotated when it is at most 0.9.
C10_OrientIffNotAligned ==
    (fx_pc = "split" /\ fx_args.auto_orient) =>
        IF 100 * fx_axis[3] * fx_axis[3] > 81 * Dot(fx_axis, fx_axis)
        THEN fx_mesh = fx_prev
        ELSE fx_mesh # fx_prev

\* A principal axis off the vertical by less than the threshold: cosine 12/13.
C10_Witness ==
    /\ fx_pc = "split"
    /\ fx_args.auto_orient
    /\ fx_axis \in {<<0, 5, 12>>, <<0, -5, -12>>}
    /\ fx_mesh = fx_prev

\* C11 (as stated): after re-centering, the centroid of the mesh (the mean of
\* its vertices) is at X = Y = 0 and the minimum Z is 0.
C11_CentroidAtOrigin ==
    fx_pc = "base" =>
        /\ SumOver(AllVerts(fx_mesh), 1, 0) = 0
        /\ SumOver(AllVerts(fx_mesh), 2, 0) = 0
        /\ Bounds(AllVerts(fx_mesh)).lo[3] = 0

\* C11 (amended): after re-centering, the centre of the bounding box is at
\* X = Y = 0 and the minimum Z is 0; the extents are those before.
C11_BoundsCentred ==
    fx_pc = "base" =>
        LET b == Bounds(AllVerts(fx_mesh))
        IN  /\ b.lo[1] + b.hi[1] = 0
            /\ b.lo[2] + b.hi[2] = 0
            /\ b.lo[3] = 0
            /\ \A k \in Axes :
                  Extents(AllVerts(fx_mesh))[k] * fx_prev.den = Extents(AllVerts(fx_prev))[k] * fx_mesh.den

\* A re-centered mesh, no base plate requested, that was off centre and whose
\* vertex mean is not the centre of its bounding box.
C11_Witness ==
    /\ fx_pc = "base"
    /\ fx_args.base_height_mm = 0
    /\ Bounds(AllVerts(fx_prev)).lo[1] + Bounds(AllVerts(fx_prev)).hi[1] # 0
    /\ SumOver(AllVerts(fx_mesh), 1, 0) # 0

(***************************************************************************)
(* Heightmap extruder: heightmap_to_stl (scripts/heightmap_to_stl.py) and  *)
(* image_to_stl_heightmap (converters.py), from the call to the export     *)
(*                                                                         *)
(* The mesh is followed by its bounds, in millimetres (den = 1 when it is  *)
(* built: the heights and scales below give whole millimetres).            *)
(* mesh.centroid is the area-weighted mean of the triangle centroids, a    *)
(* point inside the bounding box that has no rational expression in        *)
(* general; hm_rel = <<rx, ry>> places it at lo + (r / 4) * (hi - lo), any  *)
(* of the listed positions for a raster that is not constant.              *)
(***************************************************************************)
HmMaxHeights == {51, 255}     \* max_height
HmBaseHeights == {0, 2}       \* base_height
HmScales == {2, 200}          \* scale
HmRels == {<<2, 2>>, <<1, 3>>, <<3, 2>>}

\* The centroid on axis k (1 or 2), as a numerator over 4 * m.den.
CentroidNum(m, rel, k) == 4 * m.lo[k] + rel[k] * (m.hi[k] - m.lo[k])

\* Bounds of the mesh create_heightmap_mesh returns: x = linspace(0, phys_width,
\* width) with phys_width = width / pixels_per_mm * scale, pixels_per_mm = 2.
ScriptGridBounds(w, h, sc, z255) ==
    [lo |-> <<0, 0, 0>>,
     hi |-> <<(w * sc) \div 2, (h * sc) \div 2, MaxOf(Range(z255)) \div 255>>,
     den |-> 1]

\* Bounds of the mesh of image_to_stl_heightmap before line 339:
\* x = arange(width) / pixels_per_mm * scale.
McpGridBounds(w, h, sc, z255) ==
    [lo |-> <<0, 0, 0>>,
     hi |-> <<((w - 1) * sc) \div 2, ((h - 1) * sc) \div 2, MaxOf(Range(z255)) \div 255>>,
     den |-> 1]

\* converters.py 339: mesh.vertices[:, 1] = -mesh.vertices[:, 1]
MirrorY(m) == [m EXCEPT !.lo[2] = -m.hi[2], !.hi[2] = -m.lo[2]]
MirrorRel(rel) == <<rel[1], 4 - rel[2]>>

\* converters.py 340-341: mesh.vertices -= mesh.centroid, then
\* mesh.vertices[:, 2] -= mesh.bounds[0, 2].
SubtractCentroidAndGround(m, rel) ==
    [lo |-> <<4 * m.lo[1] - CentroidNum(m, rel, 1), 4 * m.lo[2] - CentroidNum(m, rel, 2), 0>>,
     hi |-> <<4 * m.hi[1] - CentroidNum(m, rel, 1), 4 * m.hi[2] - CentroidNum(m, rel, 2),
              4 * (m.hi[3] - m.lo[3])>>,
     den |-> 4 * m.den]

HmInit ==
    /\ gvariant \in {"script", "mcp"}
    /\ width \in 2..MaxDim
    /\ height \in 2..MaxDim
    /\ \E a \in Levels, b \in Levels : img = Raster(width, height, a, b, 100)
    /\ max_height \in HmMaxHeights
    /\ base_height \in HmBaseHeights
    /\ hm_scale \in HmScales
    /\ hm_fit \in BOOLEAN
    /\ hm_rel \in HmRels
    /\ Cardinality(Range(img)) = 1 => hm_rel = <<2, 2>>
    /\ zz = <<>>
    /\ faces = <<>>
    /\ hm_mesh = <<>>
    /\ hm_out = <<>>
    /\ gpc = "call"
    /\ HmRestIdle

\* create_heightmap_mesh (heightmap_to_stl.py 181-186), or converters.py 287-338
HmCreateMesh ==
    /\ gpc = "call"
    /\ zz' = Vertices(img, max_height, base_height)
    /\ faces' = IF gvariant = "script"
                THEN ScriptTop(width, height) \o ScriptBottom(width, height)
                       \o ScriptLeft(width, height) \o ScriptRight(width, height)
                       \o ScriptTopEdge(width, height) \o ScriptBottomEdge(width, height)
                ELSE McpTop(width, height) \o McpBottom(width, height)
                       \o McpRowWalls(width, height) \o McpColWalls(width, height)
    /\ hm_mesh' = IF gvariant = "script"
                  THEN ScriptGridBounds(width, height, hm_scale, zz')
                  ELSE McpGridBounds(width, height, hm_scale, zz')
    /\ gpc' = IF gvariant = "script" THEN "built" ELSE "mirror"
    /\ UNCHANGED <<gvariant, width, height, img, max_height, base_height>>
    /\ UNCHANGED <<hm_scale, hm_fit, hm_rel, hm_out>>
    /\ UNCHANGED hmRest

\* converters.py 339-341
HmRecenter ==
    /\ gpc = "mirror"
    /\ hm_rel' = MirrorRel(hm_rel)
    /\ hm_mesh' = SubtractCentroidAndGround(MirrorY(hm_mesh), MirrorRel(hm_rel))
    /\ gpc' = "built"
    /\ UNCHANGED <<gvariant, width, height, img, max_height, base_height, zz, faces>>
    /\ UNCHANGED <<hm_scale, hm_fit, hm_out>>
    /\ UNCHANGED hmRest

\* if fit_to_bed: mesh = scale_to_fit(mesh)
HmScaleToFit ==
    /\ gpc = "built"
    /\ hm_mesh' = IF ~hm_fit THEN hm_mesh
                  ELSE IF gvariant = "script" THEN ScaleToFitUtils(hm_mesh, <<0, 0, 0>>)
                  ELSE ScaleToFitMcp(hm_mesh, <<0, 0, 0>>)
    /\ gpc' = "fitted"
    /\ UNCHANGED <<gvariant, width, height, img, max_height, base_height, zz, faces>>
    /\ UNCHANGED <<hm_scale, hm_fit, hm_rel, hm_out>>
    /\ UNCHANGED hmRest

\* export_stl(mesh, output_path) / mesh.export(output_path)
HmExport ==
    /\ gpc = "fitted"
    /\ hm_out' = hm_mesh
    /\ gpc' = "exported"
    /\ UNCHANGED <<gvariant, width, height, img, max_height, base_height, zz, faces>>
    /\ UNCHANGED <<hm_scale, hm_fit, hm_rel, hm_mesh>>
    /\ UNCHANGED hmRest

HmNext == HmCreateMesh \/ HmRecenter \/ HmScaleToFit \/ HmExport

SpecHeightmap == HmInit /\ [][HmNext]_vars

\* C12 (as stated): the exported heightmap mesh has its horizontal centroid at
\* X = Y = 0 and its lowest Z at 0.
C12_HeightmapRecentered ==
    gpc = "exported" =>
        /\ CentroidNum(hm_out, hm_rel, 1) = 0
        /\ CentroidNum(hm_out, hm_rel, 2) = 0
        /\ hm_out.lo[3] = 0

(***************************************************************************)
(* Contour extruder: contours_to_polygons and the conversion call around   *)
(* it (scripts/png_to_stl.py, converters.py)                               *)
(*                                                                         *)
(* A loop is one contour with its hierarchy row: next (hierarchy[i][0]),   *)
(* child (hierarchy[i][2]) and parent (hierarchy[i][3]) are loop indices   *)
(* from 1, 0 standing for -1; len is len(contour), kept the number of      *)
(* points approxPolyDP leaves, area2 twice the area the loop encloses.     *)
(* Loops are simple, so Polygon(...).is_valid holds and make_valid is not  *)
(* called.                                                                 *)
(***************************************************************************)
MaxLoops == 3        \* findContours returns 0..MaxLoops loops

Shapes ==
    { [len |-> 2, kept |-> 2, area2 |-> 0],      \* two pixels
      [len |-> 4, kept |-> 2, area2 |-> 0],      \* a sliver, collapsed by the simplification
      [len |-> 3, kept |-> 3, area2 |-> 1],      \* a triangle of area 0.5
      [len |-> 4, kept |-> 4, area2 |-> 2],      \* a unit square
      [len |-> 4, kept |-> 4, area2 |-> 8],      \* a square of side 2
      [len |-> 4, kept |-> 4, area2 |-> 32] }    \* a square of side 4

\* The rows of a RETR_TREE hierarchy for the parent of every loop.
LoopsOf(n, parent, shape) ==
    [i \in 1..n |->
        LET later == {j \in 1..n : j > i /\ parent[j] = parent[i]}
            inside == {j \in 1..n : parent[j] = i}
        IN  [next |-> IF later = {} THEN 0 ELSE MinOf(later),
             child |-> IF inside = {} THEN 0 ELSE MinOf(inside),
             parent |-> parent[i],
             len |-> shape[i].len, kept |-> shape[i].kept, area2 |-> shape[i].area2]]

RECURSIVE SumArea2(_, _)
SumArea2(loops, S) ==
    IF S = {} THEN 0
    ELSE LET c == CHOOSE x \in S : TRUE IN loops[c].area2 + SumArea2(loops, S \ {c})

\* Loops nest properly: what lies inside a loop is smaller than the loop.
WellFormed(loops) ==
    \A i \in DOMAIN loops :
        LET inside == {j \in DOMAIN loops : loops[j].parent = i}
        IN  inside # {} => SumArea2(loops, inside) < loops[i].area2

\* Only the first child is taken as a hole.
SiblingChainFirstOnly(loops, c) == IF c = 0 THEN <<>> ELSE <<c>>

RECURSIVE SiblingChain(_, _)
\* child_idx = hierarchy[i][2]; while child_idx != -1: ...; child_idx = hierarchy[child_idx][0]
SiblingChain(loops, c) ==
    IF c = 0 THEN <<>> ELSE <<c>> \o SiblingChain(loops, loops[c].next)

SeqToSet(q) == {q[k] : k \in DOMAIN q}

\* The children that pass  len(child_contour) >= 3  and  len(child_simplified) >= 3.
Holes(loops, i) ==
    LET chain == SiblingChain(loops, loops[i].child)
        ok(c) == loops[c].len >= 3 /\ loops[c].kept >= 3
    IN  SelectSeq(chain, ok)

\* The body of  for i, contour in enumerate(contours):  what it appends to polygons.
PolygonOf(loops, i, variant) ==
    LET holes == Holes(loops, i)
        area2 == loops[i].area2 - SumArea2(loops, SeqToSet(holes))
    IN  IF loops[i].parent # 0 THEN <<>>
        ELSE IF loops[i].len < 3 THEN <<>>
        ELSE IF loops[i].kept < 3 THEN <<>>
        ELSE IF loops[i].area2 < 2 THEN <<>>                 \* outer_poly.area < 1
        ELSE IF variant = "script" /\ area2 > 2 THEN <<[outer |-> i, holes |-> holes, area2 |-> area2]>>
        ELSE IF variant = "mcp" /\ area2 >= 2 THEN <<[outer |-> i, holes |-> holes, area2 |-> area2]>>
        ELSE <<>>

\* The message of the other error of the call, which gives no guidance.
NoValidMeshes(variant) == "Failed to create any valid meshes"

NoValidContours(variant) ==
    IF variant = "script"
    THEN "No valid contours found in image. Try adjusting --threshold or use --invert"
    ELSE "No valid contours found. Try adjusting threshold or use invert=True"

CtInit ==
    /\ ct_variant \in {"script", "mcp"}
    /\ \E n \in 0..MaxLoops :
          \E parent \in [1..n -> 0..n], shape \in [1..n -> Shapes] :
              /\ \A i \in 1..n : parent[i] < i
              /\ ct_loops = LoopsOf(n, parent, shape)
    /\ WellFormed(ct_loops)
    /\ ct_i = 1
    /\ ct_polygons = <<>>
    /\ ct_extrudes \in BOOLEAN
    /\ ct_meshes = <<>>
    /\ ct_error = <<>>
    /\ ct_out = <<>>
    /\ ct_pc = "loops"
    /\ CtRestIdle

\* One iteration of the loop of contours_to_polygons.
CtLoop ==
    /\ ct_pc = "loops"
    /\ ct_i <= Len(ct_loops)
    /\ ct_polygons' = ct_polygons \o PolygonOf(ct_loops, ct_i, ct_variant)
    /\ ct_i' = ct_i + 1
    /\ UNCHANGED <<ct_variant, ct_loops, ct_extrudes, ct_meshes, ct_error, ct_out, ct_pc>>
    /\ UNCHANGED ctRest

\* return polygons;  if not polygons: raise ValueError(...)
CtCheckPolygons ==
    /\ ct_pc = "loops"
    /\ ct_i > Len(ct_loops)
    /\ IF ct_polygons = <<>>
       THEN /\ ct_error' = Append(ct_error, NoValidContours(ct_variant))
            /\ ct_pc' = "raised"
       ELSE /\ ct_error' = ct_error
            /\ ct_pc' = "merge"
    /\ UNCHANGED <<ct_variant, ct_loops, ct_i, ct_polygons, ct_extrudes, ct_meshes, ct_out>>
    /\ UNCHANGED ctRest

\* unary_union of the polygons (top-level loops do not overlap: the list is
\* as it was), the extrusion of each, and  if not meshes: raise ValueError(...)
CtMergeAndExtrude ==
    /\ ct_pc = "merge"
    /\ ct_meshes' = IF ct_extrudes THEN [k \in DOMAIN ct_polygons |-> k] ELSE <<>>
    /\ IF ct_meshes' = <<>>
       THEN /\ ct_error' = Append(ct_error, "Failed to create any valid meshes")
            /\ ct_pc' = "raised"
       ELSE /\ ct_error' = ct_error
            /\ ct_pc' = "place"
    /\ UNCHANGED <<ct_variant, ct_loops, ct_i, ct_polygons, ct_extrudes, ct_out>>
    /\ UNCHANGED ctRest

\* The combined mesh is placed, scaled and written to output_path.
CtPlaceAndExport ==
    /\ ct_pc = "place"
    /\ ct_out' = [k \in DOMAIN ct_meshes |-> ct_polygons[ct_meshes[k]]]
    /\ ct_pc' = "exported"
    /\ UNCHANGED <<ct_variant, ct_loops, ct_i, ct_polygons, ct_extrudes, ct_meshes, ct_error>>
    /\ UNCHANGED ctRest

CtNext == CtLoop \/ CtCheckPolygons \/ CtMergeAndExtrude \/ CtPlaceAndExport

SpecContour == CtInit /\ [][CtNext]_vars

(***************************************************************************)
(* Properties of the contour extruder                                      *)
(***************************************************************************)
\* contours_to_polygons has returned.
CtReturned == ct_pc # "idle" /\ ct_i > Len(ct_loops)

\* The loops whose parent is loop i and that keep at least 3 points.
KeptChildren(i) == {c \in DOMAIN ct_loops : ct_loops[c].parent = i /\ ct_loops[c].kept >= 3}

\* The outer loops of the polygons returned, in order.
Outers == [k \in DOMAIN ct_polygons |-> ct_polygons[k].outer]

\* C13 (as stated): every parentless loop that keeps at least 3 points yields
\* one polygon, whose holes are exactly the kept loops whose parent it is; no
\* other loop yields a polygon.
C13_EveryTopLevelLoopYields ==
    CtReturned =>
        /\ \A i \in DOMAIN ct_loops :
              (ct_loops[i].parent = 0 /\ ct_loops[i].kept >= 3)
                 <=> Cardinality({k \in DOMAIN ct_polygons : ct_polygons[k].outer = i}) = 1
        /\ \A k \in DOMAIN ct_polygons :
              SeqToSet(ct_polygons[k].holes) = KeptChildren(ct_polygons[k].outer)

\* Whether the area test of the copy at hand lets a polygon of twice-area a2 through.
AreaAccepted(a2) == IF ct_variant = "script" THEN a2 > 2 ELSE a2 >= 2

\* C13 (amended): a parentless loop that keeps at least 3 points yields one
\* polygon exactly when it encloses an area of at least 1 and the area left
\* after its holes is accepted (above 1 in png_to_stl.py, at least 1 in
\* converters.py); the holes of a polygon are exactly the kept loops whose
\* parent is its outer loop, each once; no loop with a parent is the outer
\* loop of a polygon, and polygons come in the order of their loops.
C13_TopLevelLoopsWithHoles ==
    CtReturned =>
        /\ \A i \in DOMAIN ct_loops :
              LET left == ct_loops[i].area2 - SumArea2(ct_loops, KeptChildren(i))
                  yields == /\ ct_loops[i].parent = 0
                            /\ ct_loops[i].kept >= 3
                            /\ ct_loops[i].area2 >= 2
                            /\ AreaAccepted(left)
                  count == Cardinality({k \in DOMAIN ct_polygons : ct_polygons[k].outer = i})
              IN  count = (IF yields THEN 1 ELSE 0)
        /\ \A k \in DOMAIN ct_polygons :
              /\ SeqToSet(ct_polygons[k].holes) = KeptChildren(ct_polygons[k].outer)
              /\ Len(ct_polygons[k].holes) = Cardinality(KeptChildren(ct_polygons[k].outer))
        /\ \A j, k \in DOMAIN ct_polygons : j < k => Outers[j] < Outers[k]

\* A shape with two holes: the one polygon returned has both.
C13_Witness ==
    /\ CtReturned
    /\ Len(ct_loops) = 3
    /\ Len(ct_polygons) = 1
    /\ Len(ct_polygons[1].holes) = 2

\* C14: when contours_to_polygons leaves no polygon, the call raises one
\* error whose message tells the caller to adjust the threshold or to invert;
\* the call ends there (nothing is raised twice) and no file is written.
C14_NoPolygonsRaises ==
    /\ (ct_pc \notin {"idle", "loops"} /\ ct_polygons = <<>>) =>
          /\ ct_pc = "raised"
          /\ ct_error \in
                { <<"No valid contours found in image. Try adjusting --threshold or use --invert">>,
                  <<"No valid contours found. Try adjusting threshold or use invert=True">> }
          /\ ct_meshes = <<>>
          /\ ct_out = <<>>
    /\ Len(ct_error) <= 1
    /\ ct_pc = "raised" <=> Len(ct_error) = 1
    /\ ct_pc = "raised" => ct_out = <<>>
    /\ ct_pc = "exported" => (ct_error = <<>> /\ ct_polygons # <<>>)

\* Loops were traced, one of them with 3 points, and none gave a polygon.
C14_Witness ==
    /\ ct_pc = "raised"
    /\ ct_polygons = <<>>
    /\ Len(ct_loops) >= 2
    /\ \E i \in DOMAIN ct_loops : ct_loops[i].parent = 0 /\ ct_loops[i].kept >= 3

(***************************************************************************)
(* The grid mesh builder on grids it has no check for                      *)
(*                                                                         *)
(* Neither copy tests the raster size or the sign of the heights: the      *)
(* loops run as on any other grid.  A 1 x 1 raster, for which no face is   *)
(* appended at all, is left out.                                           *)
(***************************************************************************)
SomeHeightNegative == \E p \in DOMAIN img : Heights(img, max_height, base_height)[p] < 0

UncheckedGridInit ==
    /\ gvariant \in {"script", "mcp"}
    /\ width \in 1..MaxDim
    /\ height \in 1..MaxDim
    /\ width * height >= 2
    /\ \E a \in Levels, b \in Levels : img = Raster(width, height, a, b, 100)
    /\ max_height \in (-MaxHeightMm)..MaxHeightMm
    /\ base_height \in (-MaxBaseMm)..MaxBaseMm
    /\ width < 2 \/ height < 2 \/ SomeHeightNegative
    /\ zz = <<>>
    /\ faces = <<>>
    /\ gpc = "vertices"
    /\ GridRestIdle

SpecGridUnchecked == UncheckedGridInit /\ [][GridNext]_vars

\* C15 (as stated): for a grid less than 2 wide or less than 2 high the
\* construction fails, and no mesh is produced.
C15_SmallGridRejected ==
    (width < 2 \/ height < 2) => gpc # "done"

\* C16 (as stated): for a grid with a negative height value the construction
\* fails, and no mesh is produced.
C16_NegativeHeightRejected ==
    SomeHeightNegative => gpc # "done"

(***************************************************************************)
(* Lithophane Generator: lithophane.py (load_and_prepare_image,            *)
(* create_flat_lithophane, image_to_lithophane) and converters.py          *)
(* (image_to_lithophane).  Lengths are in tenths of a millimetre; the      *)
(* prepared pixels are kept times 255 and the thickness map times 2550, so *)
(* that every value is a whole number.                                     *)
(***************************************************************************)
\* min_thickness = 0.8 in both copies, in tenths of a millimetre.
MinThickness10 == 8

\* The values of thickness / thickness_mm tried: below, at and above
\* min_thickness (the default is 3.0).
Thicknesses10 == {5, 8, 30}

\* The number of cells of the image followed.
LithoCells == 2

\* load_and_prepare_image: arr = img / 255, inverted unless positive.
PrepareScript(im, positive) ==
    [i \in DOMAIN im |-> IF ~positive THEN 255 - im[i] ELSE im[i]]

\* image_to_lithophane (converters.py): img = 255 - img unless positive.
PrepareMcp(im, positive) ==
    [i \in DOMAIN im |-> IF ~positive THEN 255 - im[i] ELSE im[i]]

\* create_flat_lithophane: thickness_range = max - min;
\* thickness_map = img_array * thickness_range + min_thickness.
ThicknessMapScript(arr, min10, max10) ==
    LET thickness_range == max10 - min10
    IN  [i \in DOMAIN arr |-> arr[i] * thickness_range + 255 * min10]

\* converters.py: Z = min_thickness + (img / 255.0) * (max_thickness - min_thickness).
ThicknessMapMcp(arr, min10, max10) ==
    [i \in DOMAIN arr |-> 255 * min10 + arr[i] * (max10 - min10)]

LithoInit ==
    /\ lt_variant \in {"script", "mcp"}
    /\ lt_img \in [1..LithoCells -> Levels]
    /\ lt_positive \in BOOLEAN
    /\ lt_max \in Thicknesses10
    /\ lt_arr = <<>> /\ lt_thick = <<>>
    /\ lt_pc = "prepare"
    /\ LtRestIdle

\* The inversion step of either copy.
LithoPrepare ==
    /\ lt_pc = "prepare"
    /\ lt_arr' = IF lt_variant = "script" THEN PrepareScript(lt_img, lt_positive)
                 ELSE PrepareMcp(lt_img, lt_positive)
    /\ lt_pc' = "map"
    /\ UNCHANGED <<lt_variant, lt_img, lt_positive, lt_max, lt_thick, ltRest>>

\* The thickness of every cell, with min_thickness = 0.8 and max_thickness the
\* thickness argument.
LithoThickness ==
    /\ lt_pc = "map"
    /\ lt_thick' = IF lt_variant = "script"
                   THEN ThicknessMapScript(lt_arr, MinThickness10, lt_max)
                   ELSE ThicknessMapMcp(lt_arr, MinThickness10, lt_max)
    /\ lt_pc' = "done"
    /\ UNCHANGED <<lt_variant, lt_img, lt_positive, lt_max, lt_arr, ltRest>>

LithoNext == LithoPrepare \/ LithoThickness

SpecLitho == LithoInit /\ [][LithoNext]_vars

\* The intensity the claim's formula uses for cell i.
LithoV(i) == IF lt_positive THEN lt_img[i] ELSE 255 - lt_img[i]

\* C17 (first part, holds on its own): every cell's thickness is
\* min_thickness + (v/255) * (max_thickness - min_thickness).
LithoFormulaHolds ==
    lt_pc = "done" =>
        \A i \in DOMAIN lt_thick :
            lt_thick[i] = 255 * MinThickness10 + LithoV(i) * (lt_max - MinThickness10)

\* C17: every cell's thickness is min_thickness + (v/255) * (max_thickness -
\* min_thickness) with v the intensity inverted unless positive; in the default
\* mode a darker pixel never gets a thinner cell than a lighter one; and every
\* cell's thickness lies between min_thickness and max_thickness.
C17_LithophaneThickness ==
    lt_pc = "done" =>
        /\ \A i \in DOMAIN lt_thick :
               lt_thick[i] = 255 * MinThickness10 + LithoV(i) * (lt_max - MinThickness10)
        /\ ~lt_positive =>
               \A i, j \in DOMAIN lt_thick :
                   lt_img[i] < lt_img[j] => lt_thick[i] >= lt_thick[j]
        /\ \A i \in DOMAIN lt_thick :
               /\ 255 * MinThickness10 <= lt_thick[i]
               /\ lt_thick[i] <= 255 * lt_max

\* The same statement for a thickness argument of at least min_thickness.
LithoOrderedWhenMaxAtLeastMin == lt_max >= MinThickness10 => C17_LithophaneThickness

(***************************************************************************)
(* Validator: validate_mesh of scripts/utils.py and of converters.py.      *)
(* A mesh is [vertices, faces]: a sequence of points in whole millimetres  *)
(* and a sequence of triangles, each three 1-based vertex indices.  The    *)
(* properties read from the mesh object (is_watertight, bounds, volume)    *)
(* are computed as trimesh computes them.                                  *)
(***************************************************************************)
\* The number of times the same mesh object is validated.
MaxCalls == 2

\* Tetrahedron legs tried on each axis: small, exactly the build volume, and
\* just over it.
Sizes == {1, MAX_BUILD_X, MAX_BUILD_X + 1}

TetraVertices(sx, sy, sz) == <<<<0, 0, 0>>, <<sx, 0, 0>>, <<0, sy, 0>>, <<0, 0, sz>>>>

\* The four triangles of a tetrahedron, wound outwards.
TetraFaces == <<<<1, 3, 2>>, <<1, 2, 4>>, <<1, 4, 3>>, <<2, 3, 4>>>>

\* The same surface with the last triangle wound the other way.
TetraFacesFlipped == <<<<1, 3, 2>>, <<1, 2, 4>>, <<1, 4, 3>>, <<2, 4, 3>>>>

\* The tetrahedron with its last triangle missing.
TetraFacesOpen == <<<<1, 3, 2>>, <<1, 2, 4>>, <<1, 4, 3>>>>

\* The tetrahedron with a fin: a fifth vertex and a triangle on the edge 1-2.
TetraFacesFin == Append(TetraFaces, <<1, 2, 5>>)

ValidatorMeshes ==
    {[vertices |-> TetraVertices(sx, sy, sz), faces |-> f] :
        sx \in Sizes, sy \in Sizes, sz \in Sizes,
        f \in {TetraFaces, TetraFacesFlipped, TetraFacesOpen}}
    \cup {[vertices |-> Append(TetraVertices(sx, sy, sz), <<sx, sy, sz>>),
           faces |-> TetraFacesFin] : sx \in Sizes, sy \in Sizes, sz \in Sizes}
    \cup {[vertices |-> <<>>, faces |-> <<>>],
          [vertices |-> TetraVertices(1, 1, 1), faces |-> <<>>]}

\* The directed edges of the mesh, one per face and corner: (a,b), (b,c), (c,a).
FaceEdges(m) ==
    {<<f, k>> : f \in DOMAIN m.faces, k \in 1..3}

EdgeOf(m, e) == <<m.faces[e[1]][e[2]], m.faces[e[1]][(e[2] % 3) + 1]>>

SortedEdge(d) == IF d[1] <= d[2] THEN d ELSE <<d[2], d[1]>>

\* mesh.is_watertight: every undirected edge is included in exactly two faces
\* (the sorted edges group in pairs); an empty mesh is not watertight.
IsWatertight(m) ==
    /\ m.faces # <<>>
    /\ \A e \in FaceEdges(m) :
           Cardinality({g \in FaceEdges(m) :
                           SortedEdge(EdgeOf(m, g)) = SortedEdge(EdgeOf(m, e))}) = 2

\* mesh.is_winding_consistent: the two faces on every paired edge traverse it
\* in opposite directions.  validate_mesh does not read it.
IsWindingConsistent(m) ==
    \A e, g \in FaceEdges(m) :
        (e # g /\ SortedEdge(EdgeOf(m, g)) = SortedEdge(EdgeOf(m, e)))
            => EdgeOf(m, g) # EdgeOf(m, e)

\* The vertices some face refers to.
ReferencedVertices(m) ==
    {m.vertices[m.faces[f][k]] : f \in DOMAIN m.faces, k \in 1..3}

\* mesh.bounds: the bounds of the referenced vertices, None if there are none.
\* Subscripting None (bounds[1] - bounds[0]) raises TypeError.
NoBounds == [none |-> TRUE, lo |-> <<>>, hi |-> <<>>]

MeshBounds(m) ==
    IF ReferencedVertices(m) = {} THEN NoBounds
    ELSE [none |-> FALSE,
          lo |-> Bounds(ReferencedVertices(m)).lo,
          hi |-> Bounds(ReferencedVertices(m)).hi]

RECURSIVE SumDet(_, _)
SumDet(m, n) ==
    IF n = 0 THEN 0
    ELSE SumDet(m, n - 1)
         + Dot(m.vertices[m.faces[n][1]],
               Cross(m.vertices[m.faces[n][2]], m.vertices[m.faces[n][3]]))

\* mesh.volume times 6: the signed tetrahedra of the faces against the origin.
Volume6(m) == SumDet(m, Len(m.faces))

\* The mesh object after a call.  validate_mesh assigns nothing to the mesh
\* and calls no method that changes it.
MeshInverted(m) ==
    [m EXCEPT !.faces = [f \in DOMAIN m.faces |->
                            <<m.faces[f][1], m.faces[f][3], m.faces[f][2]>>]]

MeshAfterValidate(m) == m

\* scripts/utils.py validate_mesh.  The f-strings' formatted dimension is left
\* out of the issue texts.
ValidateMeshUtils(m) ==
    LET is_watertight == IsWatertight(m)
        i0 == IF ~is_watertight THEN <<"Mesh is not watertight (has holes)">> ELSE <<>>
        bounds == MeshBounds(m)
    IN  IF bounds.none THEN [raised |-> TRUE]
        ELSE LET dimensions == Dimensions(bounds)
                 i1 == IF dimensions[1] > MAX_BUILD_X
                       THEN Append(i0, "X dimension exceeds build volume") ELSE i0
                 i2 == IF dimensions[2] > MAX_BUILD_Y
                       THEN Append(i1, "Y dimension exceeds build volume") ELSE i1
                 issues == IF dimensions[3] > MAX_BUILD_Z
                           THEN Append(i2, "Z dimension exceeds build volume") ELSE i2
             IN  [raised |-> FALSE,
                  is_valid |-> Len(issues) = 0,
                  is_watertight |-> is_watertight,
                  bounds |-> bounds,
                  dimensions |-> dimensions,
                  volume |-> IF is_watertight THEN <<Volume6(m)>> ELSE <<>>,
                  issues |-> issues]

\* converters.py validate_mesh.
ValidateMeshMcp(m) ==
    LET bounds == MeshBounds(m)
    IN  IF bounds.none THEN [raised |-> TRUE]
        ELSE LET dimensions == Dimensions(bounds)
                 i0 == IF ~IsWatertight(m)
                       THEN <<"Mesh is not watertight (may have holes)">> ELSE <<>>
                 issues == IF \/ dimensions[1] > MAX_BUILD_X
                              \/ dimensions[2] > MAX_BUILD_Y
                              \/ dimensions[3] > MAX_BUILD_Z
                           THEN Append(i0, "Exceeds build volume") ELSE i0
             IN  [raised |-> FALSE,
                  is_valid |-> Len(issues) = 0,
                  is_watertight |-> IsWatertight(m),
                  bounds |-> bounds,
                  dimensions |-> dimensions,
                  volume |-> IF IsWatertight(m) THEN <<Volume6(m)>> ELSE <<>>,
                  issues |-> issues]

ValidatorInit ==
    /\ vl_variant \in {"utils", "mcp"}
    /\ vl_mesh \in ValidatorMeshes
    /\ vl_in = vl_mesh
    /\ vl_reports = <<>>
    /\ vl_pc = "call"
    /\ VlRestIdle

\* One call of validate_mesh on the mesh object.
ValidateCall ==
    /\ vl_pc = "call"
    /\ Len(vl_reports) < MaxCalls
    /\ vl_reports' = Append(vl_reports,
                            IF vl_variant = "utils" THEN ValidateMeshUtils(vl_mesh)
                            ELSE ValidateMeshMcp(vl_mesh))
    /\ vl_mesh' = MeshAfterValidate(vl_mesh)
    /\ vl_pc' = IF Len(vl_reports) + 1 = MaxCalls THEN "done" ELSE "call"
    /\ UNCHANGED <<vl_variant, vl_in, vlRest>>

ValidatorNext == ValidateCall

SpecValidator == ValidatorInit /\ [][ValidatorNext]_vars

\* The reports of the calls that returned.
Returned == {k \in DOMAIN vl_reports : ~vl_reports[k].raised}

\* The spec's watertightness: every undirected edge appears in exactly two
\* triangles, with opposing winding.
EdgesPairedOpposing(m) == IsWatertight(m) /\ IsWindingConsistent(m)

\* C18 (first half, holds on its own): a volume is reported iff is_watertight
\* is reported true.
VolumeIffWatertight ==
    \A k \in Returned : (vl_reports[k].volume # <<>>) <=> vl_reports[k].is_watertight

\* C18: the validator reports a volume iff it reports is_watertight = true, and
\* is_watertight holds exactly when every undirected edge of the mesh appears
\* in exactly two triangles with opposing winding.
C18_VolumeIffWatertight ==
    \A k \in Returned :
        /\ (vl_reports[k].volume # <<>>) <=> vl_reports[k].is_watertight
        /\ vl_reports[k].is_watertight <=> EdgesPairedOpposing(vl_in)

ExceedsBuildVolume(m) ==
    LET d == Dimensions(MeshBounds(m))
    IN  d[1] > MAX_BUILD_X \/ d[2] > MAX_BUILD_Y \/ d[3] > MAX_BUILD_Z

\* C20 restricted to the calls that returned: is_valid is true exactly when
\* issues is empty, and each detected problem is an entry of issues.
ReturnedReportsSound ==
    \A k \in Returned :
        /\ vl_reports[k].is_valid <=> (vl_reports[k].issues = <<>>)
        /\ (~IsWatertight(vl_in) \/ ExceedsBuildVolume(vl_in))
               <=> (vl_reports[k].issues # <<>>)

\* C20: the validator never raises, for any input mesh including one with zero
\* vertices or zero faces; every problem it detects is returned as an entry of
\* issues, and is_valid is true exactly when issues is empty.
C20_ValidatorNeverRaises ==
    \A k \in DOMAIN vl_reports :
        /\ ~vl_reports[k].raised
        /\ vl_reports[k].is_valid <=> (vl_reports[k].issues = <<>>)
        /\ (~IsWatertight(vl_in) \/ ExceedsBuildVolume(vl_in))
               <=> (vl_reports[k].issues # <<>>)

(***************************************************************************)
(* fix_model: the removed_bodies count and the base plate                  *)
(***************************************************************************)
\* The positions of the input bodies that are absent from the output mesh.
AbsentBodies ==
    {k \in DOMAIN fx_prev.bodies :
        \A j \in DOMAIN fx_mesh.bodies : fx_mesh.bodies[j] # fx_prev.bodies[k]}

\* The output holds a body of the largest measured volume.
LargestBodyKept ==
    LET max_vol == MaxOf({MeasuredVolume(fx_prev.bodies[k]) : k \in DOMAIN fx_prev.bodies})
    IN  \E k \in DOMAIN fx_prev.bodies, j \in DOMAIN fx_mesh.bodies :
            /\ MeasuredVolume(fx_prev.bodies[k]) = max_vol
            /\ fx_mesh.bodies[j] = fx_prev.bodies[k]

\* C27 (second half, holds on its own): the mesh that leaves the split stage
\* still contains the largest body.
LargestBodyAlwaysKept ==
    (fx_pc = "scale" /\ fx_mesh.den = fx_prev.den) => LargestBodyKept

\* C27: for every input mesh and every min_body_ratio, removed_bodies equals
\* the number of input bodies absent from the output mesh, and the output
\* mesh still contains the largest body.
C27_RemovedCountExact ==
    (fx_pc = "scale" /\ fx_mesh.den = fx_prev.den) =>
        /\ fx_removed = Cardinality(AbsentBodies)
        /\ LargestBodyKept

(***************************************************************************)
(* Base-plate synthesis: add_base_plate of png_to_stl.py and converters.py *)
(* and the inline base of tripo_api.generate_figurine.  A mesh is followed *)
(* by its bounds [lo, hi, den], numerators over den.                       *)
(***************************************************************************)
\* The largest base height tried, in millimetres.
MaxBasePlateMm == 2

\* The largest width, depth and height of the model tried, in millimetres.
MaxModelMm == 2

\* trimesh.creation.box(extents), centred on the origin, then translated by t;
\* ext and t are numerators over d and over 2d.
TranslatedBox(ext, t, d) ==
    [lo |-> [k \in Axes |-> t[k] - ext[k]],
     hi |-> [k \in Axes |-> t[k] + ext[k]],
     den |-> 2 * d]

\* The mesh moved up by h millimetres (in place).
MovedUp(m, h) ==
    [m EXCEPT !.lo[3] = @ + h * m.den, !.hi[3] = @ + h * m.den]

\* png_to_stl.py add_base_plate: padding = 2 on each side, the plate centred
\* under the mesh on XY and moved down by base_height / 2.
BasePlatePng(m, base_h) ==
    LET mesh_width == m.hi[1] - m.lo[1]
        mesh_depth == m.hi[2] - m.lo[2]
        padding == 2
    IN  TranslatedBox(<<mesh_width + padding * 2 * m.den, mesh_depth + padding * 2 * m.den,
                        base_h * m.den>>,
                      <<m.lo[1] + m.hi[1], m.lo[2] + m.hi[2], -(base_h * m.den)>>,
                      m.den)

\* converters.py add_base_plate: box([width + 4, depth + 4, base_height]), its
\* vertices moved by -base_height / 2 on Z and to the mesh's centre on XY.
BasePlateMcp(m, base_h) ==
    LET mesh_width == m.hi[1] - m.lo[1]
        mesh_depth == m.hi[2] - m.lo[2]
    IN  TranslatedBox(<<mesh_width + 4 * m.den, mesh_depth + 4 * m.den, base_h * m.den>>,
                      <<m.lo[1] + m.hi[1], m.lo[2] + m.hi[2], -(base_h * m.den)>>,
                      m.den)

\* tripo_api.py generate_figurine: the base is 1.2 times the model's width and
\* depth and is moved up by base_height_mm / 2.
BasePlateTripo(m, base_h) ==
    LET base_width == (m.hi[1] - m.lo[1]) * 12
        base_depth == (m.hi[2] - m.lo[2]) * 12
    IN  TranslatedBox(<<base_width, base_depth, base_h * 10 * m.den>>,
                      <<0, 0, base_h * 10 * m.den>>,
                      10 * m.den)

\* The plate of the copy at hand.
BasePlateOf(variant, m, h) ==
    CASE variant = "png_to_stl" -> BasePlatePng(m, h)
      [] variant = "converters" -> BasePlateMcp(m, h)
      [] variant = "tripo_api" -> BasePlateTripo(m, h)

\* A grounded model (lowest Z = 0) and a positive base height.
BasePlateInit ==
    /\ bp_variant \in {"png_to_stl", "converters", "tripo_api"}
    /\ bp_base_height \in 1..MaxBasePlateMm
    /\ \E x \in {-1, 0}, y \in {-1, 0}, ex \in [Axes -> 1..MaxModelMm] :
           bp_mesh = [lo |-> <<x, y, 0>>, hi |-> <<x + ex[1], y + ex[2], ex[3]>>, den |-> 1]
    /\ bp_in = bp_mesh
    /\ bp_out = <<>>
    /\ bp_pc = "call"
    /\ BpRestIdle

\* The call: the plate is made from the mesh's bounds, the mesh object is
\* moved up by the base height, and the two are concatenated.
AddBasePlateCall ==
    /\ bp_pc = "call"
    /\ bp_mesh' = MovedUp(bp_mesh, bp_base_height)
    /\ bp_out' = <<BasePlateOf(bp_variant, bp_mesh, bp_base_height),
                   MovedUp(bp_mesh, bp_base_height)>>
    /\ bp_pc' = "done"
    /\ UNCHANGED <<bp_variant, bp_base_height, bp_in, bpRest>>

BasePlateNext == AddBasePlateCall

SpecBasePlate == BasePlateInit /\ [][BasePlateNext]_vars

\* The result's base and model parts touch: the model's lowest Z is the
\* plate's top Z.
InContact(out) == out[2].lo[3] * out[1].den = out[1].hi[3] * out[2].den

\* The result's vertical extent is the model's height plus b.
ExtentIsHeightPlus(out, m, b) ==
    LET d == out[1].den * out[2].den
        top == MaxOf({out[1].hi[3] * out[2].den, out[2].hi[3] * out[1].den})
        bottom == MinOf({out[1].lo[3] * out[2].den, out[2].lo[3] * out[1].den})
    IN  (top - bottom) * m.den = ((m.hi[3] - m.lo[3]) + b * m.den) * d

\* C26 for the copy in tripo_api.py alone, where it holds.
TripoBaseInContact ==
    (bp_pc = "done" /\ bp_variant = "tripo_api") =>
        InContact(bp_out) /\ ExtentIsHeightPlus(bp_out, bp_in, bp_base_height)

\* C26: after base-plate synthesis with base height b > 0 on a grounded
\* model, the model's lowest Z equals the base plate's top Z, and the
\* combined vertical extent is the model's height plus b.
C26_BaseInContact ==
    bp_pc = "done" =>
        InContact(bp_out) /\ ExtentIsHeightPlus(bp_out, bp_in, bp_base_height)

\* C26 in fix_model: the base plate is the last body of the mesh after the
\* base stage, the model the bodies before it.
FixModelBaseInContact ==
    (fx_pc = "check" /\ fx_args.base_height_mm > 0) =>
        LET n == Len(fx_mesh.bodies)
            model == UNION {fx_mesh.bodies[k].verts : k \in 1..(n - 1)}
        IN  Bounds(model).lo[3] = Bounds(fx_mesh.bodies[n].verts).hi[3]

(***************************************************************************)
(* The stages as transforms of the caller's mesh object                    *)
(***************************************************************************)
\* C21: each repair and print-prep stage is a pure transform: after the call
\* the mesh value the caller passed in is unchanged and the result is a
\* separate output mesh.  Stated for base-plate synthesis (add_base_plate).
C21_StageLeavesInput ==
    bp_pc = "done" => bp_mesh = bp_in

\* C21 for build-volume-fit: scale_to_fit returns the object it was given,
\* scaled in place by mesh.apply_scale.
ScaleToFitLeavesInput ==
    fit_pc = "returned" => fit_mesh = fit_in

\* C21 for auto-orient: auto_orient_upright assigns mesh.vertices and
\* returns the object it was given.
AutoOrientLeavesInput ==
    fx_pc = "split" => fx_mesh = fx_prev

\* C21 (last part, holds): the result of base-plate synthesis depends only
\* on the arguments.
BasePlateResultFromArguments ==
    bp_pc = "done" =>
        bp_out = <<BasePlateOf(bp_variant, bp_in, bp_base_height),
                   MovedUp(bp_in, bp_base_height)>>

(***************************************************************************)
(* Conversion jobs of the MCP server: server.py get_output_path and        *)
(* call_tool.  A path is a tuple of its parts; the content of a converted  *)
(* file is named by the input file and the tool that made it.  A handler   *)
(* awaits nothing, so a job runs from start to end in one step.            *)
(***************************************************************************)
\* The number of conversion jobs.
NumJobs == 2

Jobs == 1..NumJobs

\* Input files: two directories, two stems.
InputPaths == {<<dir, stem, ".png">> : dir \in {"a", "b"}, stem \in {"logo", "cat"}}

\* The tools and the suffix each passes to get_output_path.
SuffixOf(tool) ==
    CASE tool = "image_to_stl_contour" -> "_contour"
      [] tool = "image_to_stl_heightmap" -> "_heightmap"

ConversionTools == {"image_to_stl_contour", "image_to_stl_heightmap"}

\* get_output_path: OUTPUT_DIR / (Path(input_path).stem + suffix + extension)
get_output_path(input_path, suffix, extension) ==
    <<"output", input_path[2], suffix, extension>>

\* arguments.get("output_path") or get_output_path(arguments["image_path"], suffix)
OutputPathOf(job) ==
    IF job.output_path # <<>> THEN job.output_path
    ELSE get_output_path(job.image_path, SuffixOf(job.tool), ".stl")

\* What the converter writes for a job: the mesh of that input under that tool.
ContentOf(job) == <<job.image_path, job.tool>>

\* The file system after path p was written with content c.
Written(files, p, c) ==
    [q \in DOMAIN files \cup {p} |-> IF q = p THEN c ELSE files[q]]

\* Jobs on different input files; an output_path given explicitly is the
\* job's own.
JobsInit ==
    /\ cv_jobs \in [Jobs -> {[image_path |-> i, tool |-> t, output_path |-> o] :
                               i \in InputPaths, t \in ConversionTools,
                               o \in {<<>>} \cup {<<"out", j>> : j \in Jobs}}]
    /\ \A j, k \in Jobs : j # k => cv_jobs[j].image_path # cv_jobs[k].image_path
    /\ \A j \in Jobs : cv_jobs[j].output_path \in {<<>>, <<"out", j>>}
    /\ cv_files = <<>>
    /\ cv_results = <<>>
    /\ cv_done = {}
    /\ CvRestIdle

\* One call of call_tool: the output path is resolved, the converter writes
\* the file and the result names the path.
ConvertJob(j) ==
    /\ j \in Jobs \ cv_done
    /\ cv_files' = Written(cv_files, OutputPathOf(cv_jobs[j]), ContentOf(cv_jobs[j]))
    /\ cv_results' = [k \in cv_done \cup {j} |->
                         IF k = j THEN [output_path |-> OutputPathOf(cv_jobs[j]),
                                        content |-> ContentOf(cv_jobs[j])]
                         ELSE cv_results[k]]
    /\ cv_done' = cv_done \cup {j}
    /\ UNCHANGED <<cv_jobs, cvRest>>

JobsNext == \E j \in Jobs : ConvertJob(j)

SpecJobs == JobsInit /\ [][JobsNext]_vars

\* C22: independent conversion jobs on different input files do not
\* interfere: once the jobs have run, each job's output file holds what that
\* job alone would have written, because no output location is shared.
C22_JobsIndependent ==
    cv_done = Jobs =>
        \A j \in Jobs :
            /\ cv_results[j].content = ContentOf(cv_jobs[j])
            /\ cv_files[cv_results[j].output_path] = ContentOf(cv_jobs[j])

\* C22 (part that holds): the mesh and the report of each job are its own.
JobResultsOwn ==
    \A j \in cv_done : cv_results[j].content = ContentOf(cv_jobs[j])

\* C22 holds for jobs whose output paths differ.
JobsIndependentOnDistinctPaths ==
    (\A j, k \in Jobs : j # k => OutputPathOf(cv_jobs[j]) # OutputPathOf(cv_jobs[k]))
        => C22_JobsIndependent

(***************************************************************************)
(* Printer session: send_file and _send_command of protocol.py (the copy   *)
(* in flashforge/printer/flashforge.py is the same code).  The file is     *)
(* followed by its length; a chunk is the slice [offset, offset + length)  *)
(* of it and its CRC32 is named by that slice.  The printer and the        *)
(* network choose each reply: one containing "ok", one without, or none    *)
(* before the timeout; connect and send can fail.                          *)
(***************************************************************************)
BUFFER_SIZE == 4096

\* The file lengths tried: empty, below, at and above one and two buffers.
FileSizes == {0, 1, BUFFER_SIZE - 1, BUFFER_SIZE, BUFFER_SIZE + 1,
              2 * BUFFER_SIZE, 2 * BUFFER_SIZE + 1}

\* The most chunks without "ok" or "error" the response loop is followed for.
MaxChunks == 2

\* zlib.crc32(chunk) & 0xFFFFFFFF of the slice of the file read.
Crc32(offset, length) == <<"crc32", offset, length>>

\* f.read(BUFFER_SIZE) at file position pos: the length of the chunk.
ChunkLength(pos, filesize) ==
    IF filesize - pos < BUFFER_SIZE THEN filesize - pos ELSE BUFFER_SIZE

\* A packet whose counter starts at 1.
PacketOneBased(packet_num, pos, filesize) ==
    [cmd |-> "data", counter |-> packet_num + 1, offset |-> pos,
     length |-> IF filesize - pos < BUFFER_SIZE THEN filesize - pos ELSE BUFFER_SIZE,
     crc |-> <<"crc32", pos,
               IF filesize - pos < BUFFER_SIZE THEN filesize - pos ELSE BUFFER_SIZE>>]

\* packet = header + counter + length + chunk + crc_bytes
Packet(packet_num, pos, filesize) ==
    [cmd |-> "data", counter |-> packet_num, offset |-> pos,
     length |-> ChunkLength(pos, filesize),
     crc |-> Crc32(pos, ChunkLength(pos, filesize))]

Command(name) == [cmd |-> name]

\* What a recv can bring.
Replies == {"ok", "other", "timeout"}

\* The local state after a step; the arguments are left alone.
SessionStep(sent, bytes, num, progress, response, chunks, sock, result, pc) ==
    /\ sf_sent' = sent
    /\ sf_bytes_sent' = bytes
    /\ sf_packet_num' = num
    /\ sf_progress' = progress
    /\ sf_response' = response
    /\ sf_chunks' = chunks
    /\ sf_sock' = sock
    /\ sf_result' = result
    /\ sf_pc' = pc
    /\ UNCHANGED <<sf_fn, sf_filesize, sf_start_print, sf_callback, sfRest>>

\* An exception leaves the try block with what was sent and received so far.
Raise(sent, response) ==
    SessionStep(sent, sf_bytes_sent, sf_packet_num, sf_progress, response,
                sf_chunks, sf_sock, sf_result, "except")

\* response = sock.recv(1024) after command name: the reply is kept.
Received(name, r) == Append(sf_response, [to |-> name, reply |-> r])

\* A test that lets every reply pass.
AcceptedAlways(r) == TRUE

\* The negation of  b"ok" not in response.lower()
Accepted(r) == r = "ok"

\* sock = socket.socket(...); the file exists.
SessionInit ==
    /\ sf_fn \in {"send_file", "_send_command"}
    /\ sf_filesize \in FileSizes
    /\ sf_start_print \in BOOLEAN
    /\ sf_callback \in BOOLEAN
    /\ sf_fn = "_send_command" =>
           (sf_filesize = 0 /\ ~sf_start_print /\ ~sf_callback)
    /\ sf_sent = <<>> /\ sf_bytes_sent = 0 /\ sf_packet_num = 0 /\ sf_progress = <<>>
    /\ sf_response = <<>> /\ sf_chunks = 0
    /\ sf_sock = "created"
    /\ sf_result = "none"
    /\ sf_pc = "connect"
    /\ SfRestIdle

\* sock.connect((ip, port))
Connect ==
    /\ sf_pc = "connect"
    /\ \/ SessionStep(sf_sent, sf_bytes_sent, sf_packet_num, sf_progress, sf_response,
                      sf_chunks, "connected", sf_result, "hello")
       \/ Raise(sf_sent, sf_response)

\* sock.send(b"~M601 S1\r\n"); sock.recv(1024)
Hello ==
    /\ sf_pc = "hello"
    /\ \/ Raise(sf_sent, sf_response)
       \/ \E r \in Replies :
            IF r = "timeout" THEN Raise(Append(sf_sent, Command("M601")), sf_response)
            ELSE SessionStep(Append(sf_sent, Command("M601")), sf_bytes_sent,
                             sf_packet_num, sf_progress, sf_response, sf_chunks,
                             sf_sock, sf_result,
                             IF sf_fn = "send_file" THEN "m28" ELSE "command")

\* send_file: the M28 command, its reply and the test  b"ok" not in response.
PrepareTransfer ==
    /\ sf_pc = "m28"
    /\ \/ Raise(sf_sent, sf_response)
       \/ \E r \in Replies :
            IF r = "timeout" THEN Raise(Append(sf_sent, Command("M28")), sf_response)
            ELSE IF Accepted(r)
            THEN SessionStep(Append(sf_sent, Command("M28")), sf_bytes_sent,
                             sf_packet_num, sf_progress, Received("M28", r), sf_chunks, sf_sock,
                             sf_result, "data")
            ELSE Raise(Append(sf_sent, Command("M28")), Received("M28", r))

\* send_file: one turn of the chunk loop with a chunk read.
SendPacket ==
    /\ sf_pc = "data"
    /\ ChunkLength(sf_bytes_sent, sf_filesize) > 0
    /\ \/ Raise(sf_sent, sf_response)
       \/ SessionStep(Append(sf_sent, Packet(sf_packet_num, sf_bytes_sent, sf_filesize)),
                      sf_bytes_sent + ChunkLength(sf_bytes_sent, sf_filesize),
                      sf_packet_num + 1,
                      IF sf_callback
                      THEN Append(sf_progress,
                                  sf_bytes_sent + ChunkLength(sf_bytes_sent, sf_filesize))
                      ELSE sf_progress,
                      sf_response, sf_chunks, sf_sock, sf_result, "data")

\* send_file: the read returns no chunk; M29, its reply and the test.
EndTransfer ==
    /\ sf_pc = "data"
    /\ ChunkLength(sf_bytes_sent, sf_filesize) = 0
    /\ \/ Raise(sf_sent, sf_response)
       \/ \E r \in Replies :
            IF r = "timeout" THEN Raise(Append(sf_sent, Command("M29")), sf_response)
            ELSE IF Accepted(r)
            THEN SessionStep(Append(sf_sent, Command("M29")), sf_bytes_sent,
                             sf_packet_num, sf_progress, Received("M29", r), sf_chunks, sf_sock,
                             sf_result, IF sf_start_print THEN "m23" ELSE "bye")
            ELSE Raise(Append(sf_sent, Command("M29")), Received("M29", r))

\* send_file: if start_print, M23 and a recv whose content is not looked at.
StartPrint ==
    /\ sf_pc = "m23"
    /\ \/ Raise(sf_sent, sf_response)
       \/ \E r \in Replies :
            IF r = "timeout" THEN Raise(Append(sf_sent, Command("M23")), sf_response)
            ELSE SessionStep(Append(sf_sent, Command("M23")), sf_bytes_sent,
                             sf_packet_num, sf_progress, sf_response, sf_chunks,
                             sf_sock, sf_result, "bye")

\* _send_command: sock.send(cmd)
SendCommand ==
    /\ sf_pc = "command"
    /\ \/ Raise(sf_sent, sf_response)
       \/ SessionStep(Append(sf_sent, Command("command")), sf_bytes_sent, sf_packet_num,
                      sf_progress, sf_response, sf_chunks, sf_sock, sf_result, "response")

\* _send_command: one turn of the response loop.  A timeout, an empty chunk
\* and a response with "ok" or "error" leave the loop.
ReadResponse ==
    /\ sf_pc = "response"
    /\ \E r \in Replies \cup {"empty", "partial"} :
         CASE r = "partial" ->
                /\ sf_chunks < MaxChunks
                /\ SessionStep(sf_sent, sf_bytes_sent, sf_packet_num, sf_progress,
                               sf_response, sf_chunks + 1, sf_sock, sf_result, "response")
           [] r \in {"ok", "other"} ->
                SessionStep(sf_sent, sf_bytes_sent, sf_packet_num, sf_progress,
                            Received("command", r), sf_chunks + 1, sf_sock, sf_result, "bye")
           [] r \in {"timeout", "empty"} ->
                SessionStep(sf_sent, sf_bytes_sent, sf_packet_num, sf_progress,
                            sf_response, sf_chunks, sf_sock, sf_result, "bye")

\* sock.send(b"~M602\r\n") and the return statement.
Bye ==
    /\ sf_pc = "bye"
    /\ \/ Raise(sf_sent, sf_response)
       \/ SessionStep(Append(sf_sent, Command("M602")), sf_bytes_sent, sf_packet_num,
                      sf_progress, sf_response, sf_chunks, sf_sock, sf_result, "return")

\* finally: sock.close(); then the function returns or raises (send_file
\* wraps every exception in RuntimeError).
Finally ==
    /\ sf_pc \in {"return", "except"}
    /\ SessionStep(sf_sent, sf_bytes_sent, sf_packet_num, sf_progress, sf_response,
                   sf_chunks, "closed",
                   IF sf_pc = "except" THEN "raised"
                   ELSE IF sf_fn = "send_file" THEN "True" ELSE "response",
                   "done")

SessionNext ==
    \/ Connect \/ Hello \/ PrepareTransfer \/ SendPacket \/ EndTransfer
    \/ StartPrint \/ SendCommand \/ ReadResponse \/ Bye \/ Finally

SpecSession == SessionInit /\ [][SessionNext]_vars

(***************************************************************************)
(* Properties of the printer session                                       *)
(***************************************************************************)
\* The names of the commands sent, in order.
SentNames == [i \in DOMAIN sf_sent |-> sf_sent[i].cmd]

\* The handshake of a transfer of n packets.
Handshake(n) ==
    <<"M601", "M28">> \o [i \in 1..n |-> "data"] \o <<"M29">>
        \o (IF sf_start_print THEN <<"M23">> ELSE <<>>) \o <<"M602">>

IsPrefix(a, b) == Len(a) <= Len(b) /\ \A i \in DOMAIN a : a[i] = b[i]

WasSent(name) == \E i \in DOMAIN sf_sent : sf_sent[i].cmd = name

ReplyOk(name) ==
    \E i \in DOMAIN sf_response : sf_response[i] = [to |-> name, reply |-> "ok"]

\* C23: send_file sends its commands in the order M601, M28, data packets,
\* M29, optional M23, M602; no data packet is sent unless the reply to M28
\* contained "ok"; M23 is sent only when start_print is true and only after
\* the reply to M29 contained "ok"; and True is returned only after the reply
\* to M29 contained "ok".
C23_HandshakeOrder ==
    sf_fn = "send_file" =>
        /\ IsPrefix(SentNames, Handshake(sf_packet_num))
        /\ WasSent("data") => ReplyOk("M28")
        /\ WasSent("M23") => (sf_start_print /\ ReplyOk("M29"))
        /\ sf_result = "True" => (ReplyOk("M29") /\ WasSent("M602"))

\* A finished upload of three packets that started the print.
C23_Witness ==
    /\ sf_fn = "send_file" /\ sf_pc = "done" /\ sf_result = "True"
    /\ sf_start_print /\ sf_packet_num = 3
    /\ SentNames = <<"M601", "M28", "data", "data", "data", "M29", "M23", "M602">>

\* The data packets sent, in order.
Packets == SelectSeq(sf_sent, LAMBDA m : m.cmd = "data")

\* ceil(n / BUFFER_SIZE)
CeilBuffers(n) == (n + BUFFER_SIZE - 1) \div BUFFER_SIZE

RECURSIVE SumLengths(_, _)
SumLengths(q, n) == IF n = 0 THEN 0 ELSE SumLengths(q, n - 1) + q[n].length

\* C24: the k-th packet (from 0) carries counter k, a payload of at most 4096
\* bytes taken in file order, that payload's length and its CRC32; when the
\* loop has ended exactly ceil(N / 4096) packets were sent and their payload
\* lengths sum to N; progress_callback is called once per packet with a
\* strictly increasing bytes_sent whose last value is N.
C24_PacketFraming ==
    sf_fn = "send_file" =>
        /\ \A i \in DOMAIN Packets :
              /\ Packets[i].counter = i - 1
              /\ Packets[i].offset = SumLengths(Packets, i - 1)
              /\ Packets[i].length >= 1 /\ Packets[i].length <= BUFFER_SIZE
              /\ Packets[i].offset + Packets[i].length <= sf_filesize
              /\ Packets[i].crc = Crc32(Packets[i].offset, Packets[i].length)
        /\ WasSent("M29") =>
              /\ Len(Packets) = CeilBuffers(sf_filesize)
              /\ SumLengths(Packets, Len(Packets)) = sf_filesize
        /\ sf_callback =>
              /\ Len(sf_progress) = Len(Packets)
              /\ \A i \in DOMAIN sf_progress :
                    /\ sf_progress[i] = SumLengths(Packets, i)
                    /\ i > 1 => sf_progress[i - 1] < sf_progress[i]
              /\ (WasSent("M29") /\ sf_progress # <<>>) =>
                    sf_progress[Len(sf_progress)] = sf_filesize

\* A file of two buffers and one byte, sent with a callback: three packets,
\* the last of one byte.
C24_Witness ==
    /\ sf_fn = "send_file" /\ sf_callback /\ WasSent("M29")
    /\ sf_filesize = 2 * BUFFER_SIZE + 1
    /\ Len(Packets) = 3 /\ Packets[3].length = 1
    /\ sf_progress = <<BUFFER_SIZE, 2 * BUFFER_SIZE, 2 * BUFFER_SIZE + 1>>

\* C30 (part that holds): the socket is closed before the function returns
\* or raises.
SocketClosedOnExit == sf_result # "none" => sf_sock = "closed"

\* C30: every session is ended on every path: once M601 has been sent, M602
\* is sent before the socket is closed, and the socket is closed before the
\* function returns or raises.
C30_SessionAlwaysEnded ==
    /\ (sf_sock = "closed" /\ WasSent("M601")) => WasSent("M602")
    /\ sf_result # "none" => sf_sock = "closed"

(***************************************************************************)
(* Tripo task polling: TripoClient._wait_for_task (tripo_api.py) and       *)
(* TripoBackend._wait_for_completion (prompt/v3/tripo.py).  Time is        *)
(* counted in poll intervals; a request takes up to one more interval.     *)
(***************************************************************************)
\* The largest self.timeout tried, in poll intervals.
MaxTimeout == 3

NoResponse == [raised |-> FALSE, status_code |-> 0, code |-> 0, status |-> "none"]

\* requests.get raised instead of returning a response.
RequestFailed == [raised |-> TRUE, status_code |-> 0, code |-> 0, status |-> "none"]

\* The responses the server can give.
Responses ==
    {[raised |-> FALSE, status_code |-> sc, code |-> c, status |-> st] :
        sc \in {200, 500}, c \in {0, 1},
        st \in {"success", "failed", "queued", "running", "banned"}}

\* A loop that polls again after a failed task.
ClassifyRetryFailed(r) ==
    IF r.raised THEN "RequestException"
    ELSE IF r.status_code # 200 THEN "RuntimeError"
    ELSE IF r.code # 0 THEN "RuntimeError"
    ELSE IF r.status = "success" THEN "output"
    ELSE IF r.status \in {"queued", "running", "failed"} THEN "again"
    ELSE "RuntimeError"

\* The body of the loop on a response: what it returns or raises, or "again"
\* when it sleeps and goes back to the loop test.
Classify(r) ==
    IF r.raised THEN "RequestException"
    ELSE IF r.status_code # 200 THEN "RuntimeError"
    ELSE IF r.code # 0 THEN "RuntimeError"
    ELSE IF r.status = "success" THEN "output"
    ELSE IF r.status = "failed" THEN "RuntimeError"
    ELSE IF r.status \in {"queued", "running"} THEN "again"
    ELSE "RuntimeError"

PollInit ==
    /\ tp_variant \in {"_wait_for_task", "_wait_for_completion"}
    /\ tp_timeout \in 0..MaxTimeout
    /\ tp_elapsed = 0
    /\ tp_polls = 0
    /\ tp_last = NoResponse
    /\ tp_outcome = "none"
    /\ tp_pc = "head"
    /\ TpRestIdle

\* One turn of the loop: the test passed, the request is made, and the
\* response ends the call or is followed by time.sleep(poll_interval).
Poll ==
    /\ tp_pc = "head"
    /\ tp_elapsed < tp_timeout
    /\ \E r \in Responses \cup {RequestFailed}, took \in 0..1 :
          /\ tp_last' = r
          /\ tp_polls' = tp_polls + 1
          /\ IF Classify(r) = "again"
             THEN /\ tp_elapsed' = tp_elapsed + took + 1
                  /\ UNCHANGED <<tp_outcome, tp_pc>>
             ELSE /\ tp_elapsed' = tp_elapsed + took
                  /\ tp_outcome' = Classify(r)
                  /\ tp_pc' = "done"
    /\ UNCHANGED <<tp_variant, tp_timeout, tpRest>>

\* The loop test fails: raise TimeoutError.
TimeOut ==
    /\ tp_pc = "head"
    /\ ~(tp_elapsed < tp_timeout)
    /\ tp_outcome' = "TimeoutError"
    /\ tp_pc' = "done"
    /\ UNCHANGED <<tp_variant, tp_timeout, tp_elapsed, tp_polls, tp_last, tpRest>>

PollNext == Poll \/ TimeOut

SpecPoll == PollInit /\ [][PollNext]_vars /\ WF_vars(PollNext)

\* What holds of every outcome of the polling.
PollOutcomeSound ==
    /\ tp_pc = "done" <=> tp_outcome # "none"
    /\ tp_outcome = "output" =>
          (~tp_last.raised /\ tp_last.status_code = 200 /\ tp_last.code = 0
           /\ tp_last.status = "success")
    /\ tp_outcome = "RuntimeError" =>
          /\ ~tp_last.raised
          /\ \/ tp_last.status_code # 200
             \/ tp_last.code # 0
             \/ tp_last.status \notin {"success", "queued", "running"}
    /\ tp_outcome = "TimeoutError" => tp_elapsed >= tp_timeout
    /\ tp_outcome = "RequestException" => tp_last.raised
    /\ (tp_pc = "head" /\ tp_polls > 0) =>
          (~tp_last.raised /\ tp_last.status_code = 200 /\ tp_last.code = 0
           /\ tp_last.status \in {"queued", "running"})

ExpectedName == "model.gcode"

OtherNames == {"out.gcode", "plate_1.gcode"}

GcodeNames == {ExpectedName} \cup OtherNames

\* output_path's name.
OutputName == IF sl_same THEN ExpectedName ELSE "out.gcode"

\* The modification time of a file the slicer writes: later than any old file.
NewTime == Cardinality(GcodeNames) + 1

\* Path.rename: the file at src moves to dst, replacing what was there.
Renamed(files, src, dst) ==
    [n \in (DOMAIN files \ {src}) \cup {dst} |-> IF n = dst THEN files[src] ELSE files[n]]

\* max(gcode_files, key=lambda f: f.stat().st_mtime)
Newest(files) ==
    CHOOSE n \in DOMAIN files : \A k \in DOMAIN files : files[k].mtime <= files[n].mtime

\* Lines 234-246: the directory after the search for the generated file.
Located(files, out) ==
    IF ExpectedName \in DOMAIN files /\ ExpectedName # out
    THEN Renamed(files, ExpectedName, out)
    ELSE IF out \notin DOMAIN files
    THEN (IF DOMAIN files # {}
          THEN (IF Newest(files) # out THEN Renamed(files, Newest(files), out) ELSE files)
          ELSE files)
    ELSE files

\* The STL exists and OrcaSlicer is found; the output directory holds any
\* old G-code files, with distinct modification times.
SliceInit ==
    /\ sl_same \in BOOLEAN
    /\ \E D \in SUBSET GcodeNames :
          \E t \in [D -> 1..Cardinality(GcodeNames)] :
              /\ \A a, b \in D : a # b => t[a] # t[b]
              /\ sl_before = [n \in D |-> [content |-> "old", mtime |-> t[n]]]
    /\ sl_files = sl_before
    /\ sl_written = "none"
    /\ sl_result = "none"
    /\ sl_pc = "run"
    /\ SlRestIdle

\* subprocess.run: a timeout or a non-zero return code raises RuntimeError;
\* otherwise the slicer wrote a file into the output directory, or none.
RunSlicer ==
    /\ sl_pc = "run"
    /\ \/ /\ sl_result' = "RuntimeError"
          /\ sl_pc' = "done"
          /\ UNCHANGED <<sl_files, sl_written>>
       \/ /\ \E w \in GcodeNames \cup {"none"} :
                /\ sl_written' = w
                /\ sl_files' = IF w = "none" THEN sl_files
                               ELSE [n \in DOMAIN sl_files \cup {w} |->
                                        IF n = w THEN [content |-> "new", mtime |-> NewTime]
                                        ELSE sl_files[n]]
          /\ sl_pc' = "locate"
          /\ UNCHANGED sl_result
    /\ UNCHANGED <<sl_same, sl_before, slRest>>

\* The search, the test that output_path exists, and the return.
LocateOutput ==
    /\ sl_pc = "locate"
    /\ sl_files' = Located(sl_files, OutputName)
    /\ sl_result' = IF OutputName \notin DOMAIN Located(sl_files, OutputName)
                    THEN "RuntimeError" ELSE "returned"
    /\ sl_pc' = "done"
    /\ UNCHANGED <<sl_same, sl_before, sl_written, slRest>>

SliceNext == RunSlicer \/ LocateOutput

SpecSlice == SliceInit /\ [][SliceNext]_vars

\* The old files that are no longer where they were, other than by the
\* slicer writing over them.
OldFilesDisturbed ==
    {n \in DOMAIN sl_before :
        ~(n \in DOMAIN sl_files /\ (sl_files[n] = sl_before[n] \/ sl_written = n))}

\* C29: when slice_stl returns, the file at output_path is G-code written by
\* this call's slicer run; no G-code file that was there before the call was
\* renamed, overwritten by a rename or returned as the result; and if the
\* slicer produced no file the call raises RuntimeError.
C29_SliceOutputIsOwn ==
    sl_pc = "done" =>
        /\ sl_result = "returned" => sl_files[OutputName].content = "new"
        /\ OldFilesDisturbed = {}
        /\ sl_written = "none" => sl_result = "RuntimeError"

\* C29 for an output directory that held no G-code file before the call.
SliceOwnInEmptyDirectory ==
    (sl_pc = "done" /\ sl_before = <<>>) =>
        /\ sl_result = "returned" => sl_files[OutputName].content = "new"
        /\ sl_written = "none" => sl_result = "RuntimeError"

\* An old file is returned although the slicer wrote none.
OldFileNeverReturned ==
    ~(sl_pc = "done" /\ sl_result = "returned" /\ sl_written = "none")

(***************************************************************************)
(* Contour placement: png_to_stl.py lines 254-275 and converters.py lines  *)
(* 232-246, from the combined mesh (centred, its bottom at Z = 0) to the   *)
(* exported file.  The mesh is followed by its bounds [lo, hi, den].       *)
(***************************************************************************)
\* The bounds in lowest terms.
LowestTerms(m) ==
    LET nums == {m.lo[k] : k \in Axes} \cup {m.hi[k] : k \in Axes}
        ok(g) == Divides(g, m.den) /\ \A x \in nums : Divides(g, x)
        g == CHOOSE c \in 1..m.den : ok(c) /\ \A h \in 1..m.den : ok(h) => h <= c
    IN  [lo |-> [k \in Axes |-> m.lo[k] \div g],
         hi |-> [k \in Axes |-> m.hi[k] \div g],
         den |-> m.den \div g]

\* combined.vertices[:, 0] *= scale_factor; combined.vertices[:, 1] *=
\* scale_factor, with scale_factor = scale / current_width; Z is kept.
ScaleToWidth(m, scale) ==
    LET current_width == m.hi[1] - m.lo[1]
    IN  IF scale # 0 /\ current_width > 0
        THEN LowestTerms(
               [lo |-> <<m.lo[1] * scale * m.den, m.lo[2] * scale * m.den,
                         m.lo[3] * current_width>>,
                hi |-> <<m.hi[1] * scale * m.den, m.hi[2] * scale * m.den,
                         m.hi[3] * current_width>>,
                den |-> m.den * current_width])
        ELSE m

\* trimesh.util.concatenate([base, mesh]): the bounds of the two together.
ConcatenatedBounds(a, b) ==
    LowestTerms(
      [lo |-> [k \in Axes |-> MinOf({a.lo[k] * b.den, b.lo[k] * a.den})],
       hi |-> [k \in Axes |-> MaxOf({a.hi[k] * b.den, b.hi[k] * a.den})],
       den |-> a.den * b.den])

\* The axes on which validate_mesh finds the mesh larger than the build volume.
AxesOverBuildVolume(m) ==
    {k \in Axes : Dimensions(m)[k] > <<MAX_BUILD_X, MAX_BUILD_Y, MAX_BUILD_Z>>[k] * m.den}

\* The build-volume entries of issues: one per axis in utils.validate_mesh,
\* one in all in the converters.py copy.
BuildVolumeIssues(variant, m) ==
    IF variant = "script" THEN Cardinality(AxesOverBuildVolume(m))
    ELSE IF AxesOverBuildVolume(m) # {} THEN 1 ELSE 0

\* Widths and depths of the combined mesh, extrusion heights, target widths
\* and base thicknesses tried, in millimetres.
PlanSizes == {100, 2 * MAX_BUILD_X}
ExtrusionHeights == {5, 300}
TargetWidths == {0, 100, MAX_BUILD_X, 300}
BaseThicknesses == {0, 2}

PlaceInit ==
    /\ pl_variant \in {"script", "mcp"}
    /\ pl_args \in [scale : TargetWidths, base : BaseThicknesses, fit_to_bed : BOOLEAN]
    /\ \E w \in PlanSizes, d \in PlanSizes, h \in ExtrusionHeights :
           pl_combined = [lo |-> <<-w, -d, 0>>, hi |-> <<w, d, 2 * h>>, den |-> 2]
    /\ pl_exported = <<>>
    /\ pl_issues = 0
    /\ pl_pc = "scale"
    /\ PlRestIdle

\* if scale is not None: scale X and Y to the target width.
PlaceScale ==
    /\ pl_pc = "scale"
    /\ pl_combined' = ScaleToWidth(pl_combined, pl_args.scale)
    /\ pl_pc' = "fit"
    /\ UNCHANGED <<pl_variant, pl_args, pl_exported, pl_issues, plRest>>

\* if fit_to_bed: combined = scale_to_fit(combined)
PlaceFit ==
    /\ pl_pc = "fit"
    /\ pl_combined' =
          IF pl_args.fit_to_bed
          THEN LowestTerms(IF pl_variant = "script"
                           THEN ScaleToFitUtils(pl_combined, <<0, 0, 0>>)
                           ELSE ScaleToFitMcp(pl_combined, <<0, 0, 0>>))
          ELSE pl_combined
    /\ pl_pc' = "base"
    /\ UNCHANGED <<pl_variant, pl_args, pl_exported, pl_issues, plRest>>

\* if base > 0: combined = add_base_plate(combined, base)
PlaceBase ==
    /\ pl_pc = "base"
    /\ pl_combined' =
          IF pl_args.base > 0
          THEN ConcatenatedBounds(
                  IF pl_variant = "script" THEN BasePlatePng(pl_combined, pl_args.base)
                  ELSE BasePlateMcp(pl_combined, pl_args.base),
                  MovedUp(pl_combined, pl_args.base))
          ELSE pl_combined
    /\ pl_pc' = "export"
    /\ UNCHANGED <<pl_variant, pl_args, pl_exported, pl_issues, plRest>>

\* export_stl (validation, then mesh.export) in the script; combined.export
\* and validate_mesh in converters.py.
PlaceExport ==
    /\ pl_pc = "export"
    /\ pl_exported' = pl_combined
    /\ pl_issues' = BuildVolumeIssues(pl_variant, pl_combined)
    /\ pl_pc' = "exported"
    /\ UNCHANGED <<pl_variant, pl_args, pl_combined, plRest>>

PlaceNext == PlaceScale \/ PlaceFit \/ PlaceBase \/ PlaceExport

SpecPlace == PlaceInit /\ [][PlaceNext]_vars

\* C28: with fit_to_bed enabled, for any target width, extrusion height and
\* base thickness, the exported mesh does not exceed the 220 mm build volume
\* on any axis and the validation reports no build-volume issue.
C28_ContourFitsBed ==
    (pl_pc = "exported" /\ pl_args.fit_to_bed) =>
        /\ FitsVolume(pl_exported, <<MAX_BUILD_X, MAX_BUILD_Y, MAX_BUILD_Z>>)
        /\ pl_issues = 0

\* C28 holds when no base plate is asked for.
ContourFitsBedWithoutBase ==
    (pl_pc = "exported" /\ pl_args.fit_to_bed /\ pl_args.base = 0) =>
        /\ FitsVolume(pl_exported, <<MAX_BUILD_X, MAX_BUILD_Y, MAX_BUILD_Z>>)
        /\ pl_issues = 0

\* The validation reports a build-volume issue exactly when an axis exceeds.
IssuesReportedWhenOver ==
    pl_pc = "exported" =>
        (pl_issues > 0 <=>
            ~FitsVolume(pl_exported, <<MAX_BUILD_X, MAX_BUILD_Y, MAX_BUILD_Z>>))

=============================================================================
